---- MODULE Spec2Model ----
(***************************************************************************)
(* Model of the PAN-card field-extraction engine of                        *)
(* src/app/services/pan_ocr_service.py (class PANOCRService).              *)
(*                                                                         *)
(* A text is a sequence of one-character strings, so that every regular    *)
(* expression, slice and character test of the source is computed on the   *)
(* characters themselves.  Python's 0-based index i is index i+1 here.     *)
(* The alphabet is ASCII: the Devanagari alternatives of two label         *)
(* patterns of extract_father_name cannot occur in a text of the model.    *)
(***************************************************************************)
EXTENDS Naturals, Integers, Sequences, FiniteSets, TLC

VARIABLES
    pc,            \* position of the running call
    pan,           \* argument of _fix_pan_ocr_errors
    corrected,     \* value returned by _fix_pan_ocr_errors
    refixed,       \* value returned by _fix_pan_ocr_errors called on corrected
    text,          \* the (combined) text an extractor is called on
    valid_pans,    \* extract_pan_number: the list valid_pans
    pan_number,    \* value returned by extract_pan_number
    runs,          \* ensemble_tesseract_bytes: the parameter runs
    pil_img,       \* ensemble_tesseract_bytes: whether Image.open gave an image
    results,       \* ensemble_tesseract_bytes: the list results
    thrown,        \* ensemble_tesseract_bytes: which runs raised
    ens_text,      \* value returned by ensemble_tesseract_bytes
    allow_single_word, \* argument of _is_valid_name
    is_valid,      \* value returned by _is_valid_name
    candidates,    \* extract_name / extract_father_name: the list candidates
    name,          \* value returned by extract_name
    person_name,   \* extract_father_name: the local person_name
    father_name,   \* value returned by extract_father_name
    valid_dates,   \* extract_dob: the list valid_dates
    dob,           \* value returned by extract_dob
    processed_images, \* extract_text_with_tesseract: the number of image variants
    img_idx,       \* extract_text_with_tesseract: index of the image variant
    cfg_idx,       \* extract_text_with_tesseract: index of the configuration
    all_texts,     \* extract_text_with_tesseract: the list all_texts
    passes,        \* the engine calls made so far, with their outcome
    combined_text, \* value returned by extract_text_with_tesseract
    use_ensemble,  \* extract_text_with_tesseract: the parameter use_ensemble
    ensemble_calls, \* the values ensemble_tesseract_bytes returned to this call
    image_ok,      \* whether Image.open can decode the image bytes
    success,       \* extract_pan_data: the key 'success' of the result
    earlier,       \* the results of the calls made before the one at hand
    confs,         \* _pytesseract_text_and_conf: data['conf'] of the engine
    avg_conf,      \* _pytesseract_text_and_conf: the confidence returned
    temp_verification_data, \* kyc.py: the module's store of sessions
    issued,        \* kyc.py: how many session ids uuid4 has given out
    users,         \* the users create_user has stored
    requests,      \* the complete-verification requests, each with its position
    document_type, \* send_verification_request: the parameter document_type
    verification_data, \* send_verification_request: the parameter verification_data
    user_corrections,  \* send_verification_request: the parameter user_corrections
    verification_message, \* send_verification_request: the message for the stream
    sent           \* value returned by send_verification_request

vars == <<pc, pan, corrected, refixed, text, valid_pans, pan_number, runs, pil_img, results,
          thrown, ens_text, allow_single_word, is_valid, candidates, name,
          person_name, father_name, valid_dates, dob, processed_images, img_idx,
          cfg_idx, all_texts, passes, combined_text, use_ensemble, ensemble_calls,
          image_ok, success, earlier, confs, avg_conf, temp_verification_data, issued,
          users, requests, document_type, verification_data, user_corrections,
          verification_message, sent>>
dobVars == <<valid_dates, dob>>
sweepVars == <<processed_images, img_idx, cfg_idx, all_texts, passes, combined_text,
               use_ensemble, ensemble_calls>>
dataVars == <<image_ok, success, earlier>>
confVars == <<confs, avg_conf>>
kycVars == <<temp_verification_data, issued, users, requests>>
redisVars == <<document_type, verification_data, user_corrections, verification_message, sent>>

(***************************************************************************)
(* Characters and strings                                                  *)
(***************************************************************************)
UpperSeq == <<"A","B","C","D","E","F","G","H","I","J","K","L","M",
              "N","O","P","Q","R","S","T","U","V","W","X","Y","Z">>
LowerSeq == <<"a","b","c","d","e","f","g","h","i","j","k","l","m",
              "n","o","p","q","r","s","t","u","v","w","x","y","z">>
UpperLetters == {UpperSeq[i] : i \in 1..26}
LowerLetters == {LowerSeq[i] : i \in 1..26}
Digits == {"0","1","2","3","4","5","6","7","8","9"}
\* the characters the pattern class \s matches
Whitespace == {" ", "\n", "\t"}

\* Python's None, distinct from every text (a text holds single characters)
None == <<"None">>
\* a variable of a call that has not run
Idle == <<"idle">>

UpperOf == [c \in LowerLetters |-> UpperSeq[CHOOSE i \in 1..26 : LowerSeq[i] = c]]
CharUpper(c) == IF c \in LowerLetters THEN UpperOf[c] ELSE c
\* str.upper()
Upper(s) == [i \in 1..Len(s) |-> CharUpper(s[i])]
\* str.isalpha() and str.isdigit() of one character
IsAlpha(c) == c \in UpperLetters \cup LowerLetters
IsDigit(c) == c \in Digits
\* the pattern class \w, which decides the word boundary \b
IsWordChar(c) == IsAlpha(c) \/ IsDigit(c) \/ c = "_"
\* s[a:b] of Python, for 0 <= a and any b
Slice(s, a, b) == SubSeq(s, a + 1, IF b > Len(s) THEN Len(s) ELSE b)
\* re.sub(r'\s+', '', s)
RECURSIVE RemoveWhitespace(_)
RemoveWhitespace(s) ==
    IF s = <<>> THEN <<>>
    ELSE IF Head(s) \in Whitespace THEN RemoveWhitespace(Tail(s))
    ELSE <<Head(s)>> \o RemoveWhitespace(Tail(s))
\* x in list
InList(x, list) == \E i \in 1..Len(list) : list[i] = x
\* needle in haystack, for strings
Contains(hay, needle) ==
    \E i \in 0..(Len(hay) - Len(needle)) :
        \A k \in 1..Len(needle) : hay[i + k] = needle[k]

(***************************************************************************)
(* _fix_pan_ocr_errors and _is_valid_pan_format                            *)
(***************************************************************************)
PanLen == 10
\* a slip: L is corrected to the letter I, which the table corrects again
digit_corrections_Chained ==
    [O |-> "0", I |-> "1", L |-> "I", S |-> "5", Z |-> "2",
     B |-> "8", G |-> "6", J |-> "5", R |-> "4", T |-> "7"]
digit_corrections ==
    [O |-> "0", I |-> "1", L |-> "1", S |-> "5", Z |-> "2",
     B |-> "8", G |-> "6", J |-> "5", R |-> "4", T |-> "7"]
letter_corrections ==
    ("0" :> "O") @@ ("1" :> "I") @@ ("5" :> "S") @@ ("8" :> "B") @@ ("3" :> "E") @@
    ("2" :> "Z") @@ ("6" :> "G") @@ ("9" :> "G") @@ ("4" :> "A") @@ ("7" :> "T")
\* the positions (1-based) the two loops of _fix_pan_ocr_errors visit
DigitZone == {6, 7, 8, 9}
LetterZone == {1, 2, 3, 4, 5, 10}

\* a slip: the digit loop also visits position 4 (0-based)
fix_pan_ocr_errors_WideDigitZone(s) ==
    IF Len(s) < PanLen THEN s
    ELSE LET up == Upper(s)
             r1 == [i \in 1..Len(s) |->
                      IF i \in (DigitZone \cup {5}) /\ up[i] \in DOMAIN digit_corrections
                      THEN digit_corrections[up[i]] ELSE up[i]]
         IN  [i \in 1..Len(s) |->
                IF i \in LetterZone /\ r1[i] \in Digits
                THEN letter_corrections[r1[i]] ELSE r1[i]]
\* a slip: the table of the letter zone lacks the entry for 9
fix_pan_ocr_errors_NoNine(s) ==
    IF Len(s) < PanLen THEN s
    ELSE LET up == Upper(s)
             r1 == [i \in 1..Len(s) |->
                      IF i \in DigitZone /\ up[i] \in DOMAIN digit_corrections
                      THEN digit_corrections[up[i]] ELSE up[i]]
         IN  [i \in 1..Len(s) |->
                IF i \in LetterZone /\ r1[i] \in (Digits \ {"9"})
                THEN letter_corrections[r1[i]] ELSE r1[i]]
fix_pan_ocr_errors(s) ==
    IF Len(s) < PanLen THEN s
    ELSE LET up == Upper(s)
             r1 == [i \in 1..Len(s) |->
                      IF i \in DigitZone /\ up[i] \in DOMAIN digit_corrections
                      THEN digit_corrections[up[i]] ELSE up[i]]
         IN  [i \in 1..Len(s) |->
                IF i \in LetterZone /\ r1[i] \in Digits
                THEN letter_corrections[r1[i]] ELSE r1[i]]

\* a slip: the pattern admits letters in the digit zone, ^[A-Z]{5}[0-9A-Z]{4}[A-Z]$
is_valid_pan_format_Loose(s) ==
    /\ Len(s) = PanLen
    /\ \A i \in 1..5 : s[i] \in UpperLetters
    /\ \A i \in 6..9 : s[i] \in Digits \cup UpperLetters
    /\ s[10] \in UpperLetters
\* len(pan) == 10 and ^[A-Z]{5}[0-9]{4}[A-Z]{1}$
is_valid_pan_format(s) ==
    /\ Len(s) = PanLen
    /\ \A i \in 1..5 : s[i] \in UpperLetters
    /\ \A i \in 6..9 : s[i] \in Digits
    /\ s[10] \in UpperLetters

(***************************************************************************)
(* Pattern matching helpers                                                *)
(***************************************************************************)
\* str.split('\n')
RECURSIVE SplitFrom(_, _, _)
SplitFrom(s, start, i) ==
    IF i > Len(s) THEN <<SubSeq(s, start, Len(s))>>
    ELSE IF s[i] = "\n" THEN <<SubSeq(s, start, i - 1)>> \o SplitFrom(s, i + 1, i + 1)
    ELSE SplitFrom(s, start, i + 1)
SplitLines(s) == SplitFrom(s, 1, 1)
RECURSIVE Flatten(_)
Flatten(ss) == IF ss = <<>> THEN <<>> ELSE Head(ss) \o Flatten(Tail(ss))
Min(a, b) == IF a < b THEN a ELSE b
Max(a, b) == IF a > b THEN a ELSE b
\* the word boundary \b between 1-based indexes p-1 and p
WordBoundary(s, p) ==
    (p > 1 /\ p - 1 <= Len(s) /\ IsWordChar(s[p - 1]))
        # (p >= 1 /\ p <= Len(s) /\ IsWordChar(s[p]))
\* the literal lit (in upper case) at index p of s, ignoring case
LitAt(s, p, lit) ==
    /\ p >= 1
    /\ p + Len(lit) - 1 <= Len(s)
    /\ \A k \in 1..Len(lit) : CharUpper(s[p + k - 1]) = lit[k]
\* the index after a greedy \s* that starts at index p
RECURSIVE SkipWs(_, _)
SkipWs(s, p) == IF p <= Len(s) /\ s[p] \in Whitespace THEN SkipWs(s, p + 1) ELSE p
\* lits[1] \s* lits[2] \s* ... matched at index p, ignoring case: the index
\* after the match, or 0
RECURSIVE WordsEnd(_, _, _)
WordsEnd(s, p, lits) ==
    IF ~LitAt(s, p, Head(lits)) THEN 0
    ELSE IF Len(lits) = 1 THEN p + Len(Head(lits))
    ELSE WordsEnd(s, SkipWs(s, p + Len(Head(lits))), Tail(lits))
\* re.search of such a pattern anywhere in s
SearchWords(s, lits) == \E p \in 1..Len(s) : WordsEnd(s, p, lits) # 0

(***************************************************************************)
(* extract_pan_number                                                      *)
(***************************************************************************)
\* Permanent\s*Account\s*Number|^\s*PAN\b|Account\s*Number\s*Card, IGNORECASE
IsPanLabelLine(line) ==
    \/ SearchWords(line, <<<<"P","E","R","M","A","N","E","N","T">>, <<"A","C","C","O","U","N","T">>, <<"N","U","M","B","E","R">>>>)
    \/ LET p == SkipWs(line, 1)
       IN  LitAt(line, p, <<"P","A","N">>) /\ WordBoundary(line, p + 3)
    \/ SearchWords(line, <<<<"A","C","C","O","U","N","T">>, <<"N","U","M","B","E","R">>, <<"C","A","R","D">>>>)
\* the letters strategy 1 takes for a digit
OcrDigitLike == {"O", "I", "L", "S", "Z", "G"}
\* the test of lines 288-295 on a 10-character window
LooksLikePan(w) ==
    /\ \A i \in {1, 2, 3, 4, 5, 10} : IsAlpha(w[i])
    /\ \A i \in {6, 7, 8, 9} : IsDigit(w[i]) \/ w[i] \in OcrDigitLike
\* the windows s[k:k+10], k = 0 .. len(s)-10, as pairs <<k, window>>
Windows(s) ==
    IF Len(s) < PanLen THEN <<>>
    ELSE [k \in 1..(Len(s) - PanLen + 1) |-> <<k - 1, SubSeq(s, k, k + PanLen - 1)>>]
Strategy1Accepts(kw) ==
    LooksLikePan(kw[2]) /\ is_valid_pan_format(fix_pan_ocr_errors(kw[2]))
\* the candidates of one checked line, as pairs <<k, corrected>>, in scan order
Strategy1Line(check_line) ==
    LET hits == SelectSeq(Windows(RemoveWhitespace(check_line)), Strategy1Accepts)
    IN  [n \in 1..Len(hits) |-> <<hits[n][1], fix_pan_ocr_errors(hits[n][2])>>]
\* how many lines are checked from a label line: range(0, min(3, len(lines) - i))
LabelScanLines == 3
\* strategy 1 on the upper-cased text: triples <<line, k, corrected>> (0-based
\* line and offset) in the order the loops append them to valid_pans
Strategy1Found(t) ==
    LET lines == SplitLines(t)
        n == Len(lines)
        fromLabel(i) ==
            Flatten([j \in 1..Min(LabelScanLines, n - i + 1) |->
                LET c == Strategy1Line(lines[i + j - 1])
                IN  [m \in 1..Len(c) |-> <<i + j - 2, c[m][1], c[m][2]>>]])
    IN  Flatten([i \in 1..n |->
            IF IsPanLabelLine(lines[i]) THEN fromLabel(i) ELSE <<>>])
Strategy1Pans(t) ==
    LET f == Strategy1Found(t) IN [n \in 1..Len(f) |-> f[n][3]]

\* \b([A-Z]{5}[0-9]{4}[A-Z])\b at index p: the index after the match, or 0
Pattern1End(s, p) ==
    IF /\ p + PanLen - 1 <= Len(s)
       /\ WordBoundary(s, p)
       /\ \A i \in 0..4 : s[p + i] \in UpperLetters
       /\ \A i \in 5..8 : s[p + i] \in Digits
       /\ s[p + 9] \in UpperLetters
       /\ WordBoundary(s, p + PanLen)
    THEN p + PanLen ELSE 0
\* \b([A-Z]{5}\s*[0-9]{4}\s*[A-Z])\b at index p: the index after the match, or 0
Pattern2End(s, p) ==
    LET d == SkipWs(s, p + 5)
        l == SkipWs(s, d + 4)
    IN  IF /\ l <= Len(s)
           /\ WordBoundary(s, p)
           /\ \A i \in 0..4 : s[p + i] \in UpperLetters
           /\ \A i \in 0..3 : s[d + i] \in Digits
           /\ s[l] \in UpperLetters
           /\ WordBoundary(s, l + 1)
        THEN l + 1 ELSE 0
PatternEnd(pat, s, p) == IF pat = 1 THEN Pattern1End(s, p) ELSE Pattern2End(s, p)
\* re.findall(pattern, s): the non-overlapping matches from left to right, as
\* pairs <<start, match>> (start 0-based)
RECURSIVE FindAllFrom(_, _, _)
FindAllFrom(pat, s, p) ==
    IF p > Len(s) THEN <<>>
    ELSE LET e == PatternEnd(pat, s, p)
         IN  IF e # 0 THEN <<<<p - 1, SubSeq(s, p, e - 1)>>>> \o FindAllFrom(pat, s, e)
             ELSE FindAllFrom(pat, s, p + 1)
FindAll(pat, s) == FindAllFrom(pat, s, 1)
\* the loop body of lines 313-316 over a list of matches
RECURSIVE AppendValidUnique(_, _)
AppendValidUnique(acc, cands) ==
    IF cands = <<>> THEN acc
    ELSE LET p == fix_pan_ocr_errors(RemoveWhitespace(Head(cands)))
         IN  AppendValidUnique(
                 IF is_valid_pan_format(p) /\ ~InList(p, acc) THEN Append(acc, p) ELSE acc,
                 Tail(cands))
Matches(pat, t) == LET f == FindAll(pat, t) IN [n \in 1..Len(f) |-> f[n][2]]
\* strategy 2: for pattern in pan_patterns: for match in re.findall(...)
Strategy2Pans(acc, t) ==
    AppendValidUnique(AppendValidUnique(acc, Matches(1, t)), Matches(2, t))

exclude_keywords ==
    <<<<"I","N","C","O","M","E","T","A","X","D","E","P","A","R","T","M","E","N","T">>, <<"G","O","V","E","R","N","M","E","N","T","O","F">>, <<"A","C","C","O","U","N","T","N","U","M","B","E","R">>,
      <<"P","E","R","M","A","N","E","N","T","A","C","C","O","U","N","T">>, <<"C","A","R","D","S","I","G","N","A","T","U","R","E">>>>
ContextBefore == 20
MinAlpha == 5
MinDigitLike == 4
ContextAfter == 15
\* lines 329-331: the window at 0-based offset i lies in a false-positive context
Excluded(tns, i) ==
    LET context == Slice(tns, Max(0, i - ContextBefore), i + ContextAfter)
    IN  \E n \in 1..Len(exclude_keywords) : Contains(context, exclude_keywords[n])
\* sum(1 for c in potential if c.isalpha()), ... c.isdigit(), ... c in 'OILSZG'
alpha_count(w) == Cardinality({i \in 1..Len(w) : IsAlpha(w[i])})
digit_count(w) == Cardinality({i \in 1..Len(w) : IsDigit(w[i])})
ocr_digit_like(w) == Cardinality({i \in 1..Len(w) : w[i] \in OcrDigitLike})
\* lines 328-340 without the membership test: window kw = <<i, potential>> of
\* the whitespace-free text tns is not skipped and yields a valid corrected
\* candidate (the tests are side-effect free; the cheap ones are stated first)
Strategy3Accepts(tns, kw) ==
    /\ alpha_count(kw[2]) >= MinAlpha
    /\ digit_count(kw[2]) + ocr_digit_like(kw[2]) >= MinDigitLike
    /\ is_valid_pan_format(fix_pan_ocr_errors(kw[2]))
    /\ ~Excluded(tns, kw[1])
\* strategy 3 on the upper-cased text: pairs <<i, corrected>> in window order
Strategy3Found(t) ==
    LET tns == RemoveWhitespace(t)
        Acc(kw) == Strategy3Accepts(tns, kw)
        hits == SelectSeq(Windows(tns), Acc)
    IN  [n \in 1..Len(hits) |-> <<hits[n][1], fix_pan_ocr_errors(hits[n][2])>>]
RECURSIVE AppendUnique(_, _)
AppendUnique(acc, cands) ==
    IF cands = <<>> THEN acc
    ELSE AppendUnique(IF InList(Head(cands), acc) THEN acc ELSE Append(acc, Head(cands)),
                      Tail(cands))
Strategy3Pans(acc, t) ==
    LET f == Strategy3Found(t) IN AppendUnique(acc, [n \in 1..Len(f) |-> f[n][2]])

\* lines 269-346: the three strategies in turn, each returning its first find
extract_pan_number(t) ==
    LET s1 == Strategy1Pans(Upper(t))
        s2 == Strategy2Pans(s1, Upper(t))
        s3 == Strategy3Pans(s2, Upper(t))
    IN  IF s1 # <<>> THEN s1[1]
        ELSE IF s2 # <<>> THEN s2[1]
        ELSE IF s3 # <<>> THEN s3[1]
        ELSE None

(***************************************************************************)
(* SpecFix: _fix_pan_ocr_errors applied to bounded candidate strings.      *)
(* A candidate is what extract_pan_number passes: a slice of text.upper(). *)
(* The inputs are a string of the grammar, a 9-character and an            *)
(* 11-character string, each with at most MaxEdits characters replaced.    *)
(***************************************************************************)
MaxEdits == 1
BasePan == <<"H","J","T","P","B","9","8","8","1","M">>
FixBases == {BasePan, SubSeq(BasePan, 1, 9), BasePan \o <<"X">>}
\* every digit, every key of digit_corrections, another letter and a character
\* that is neither
FixAlphabet == Digits \cup DOMAIN digit_corrections \cup {"M", "-"}
RECURSIVE Edits(_, _)
Edits(s, k) ==
    IF k = 0 THEN {s}
    ELSE LET prev == Edits(s, k - 1)
         IN  prev \cup {[t EXCEPT ![i] = c] : t \in prev, i \in 1..Len(s), c \in FixAlphabet}
FixInputs == UNION {Edits(b, MaxEdits) : b \in FixBases}

\* the variables of the calls a specification does not make
IdleFix == pan = Idle /\ corrected = Idle /\ refixed = Idle
IdlePan == valid_pans = <<>> /\ pan_number = Idle
IdleEnsemble ==
    runs = 0 /\ pil_img = FALSE /\ results = <<>> /\ thrown = <<>> /\ ens_text = Idle
IdleValidName == allow_single_word = FALSE /\ is_valid = FALSE
IdleNames ==
    candidates = <<>> /\ name = Idle /\ person_name = Idle /\ father_name = Idle
IdleDob == valid_dates = <<>> /\ dob = Idle
IdleSweep ==
    /\ processed_images = 0 /\ img_idx = 0 /\ cfg_idx = 0
    /\ all_texts = <<>> /\ passes = <<>> /\ combined_text = Idle
    /\ use_ensemble = FALSE /\ ensemble_calls = <<>>
IdleData == image_ok = FALSE /\ success = FALSE /\ earlier = Idle
IdleConf == confs = <<>> /\ avg_conf = Idle
IdleKyc == temp_verification_data = <<>> /\ issued = 0 /\ users = <<>> /\ requests = <<>>
IdleRedis ==
    /\ document_type = Idle /\ verification_data = Idle /\ user_corrections = Idle
    /\ verification_message = Idle /\ sent = FALSE

InitFix ==
    /\ pc = "fix"
    /\ pan \in FixInputs
    /\ corrected = Idle
    /\ refixed = Idle
    /\ text = Idle
    /\ IdlePan /\ IdleEnsemble /\ IdleValidName /\ IdleNames
    /\ IdleDob /\ IdleSweep /\ IdleData
    /\ IdleConf /\ IdleKyc /\ IdleRedis

FixPanOcrErrors ==
    /\ pc = "fix"
    /\ corrected' = fix_pan_ocr_errors(pan)
    /\ pc' = "fix_done"
    /\ UNCHANGED <<confVars, kycVars, redisVars, refixed, dobVars, sweepVars, dataVars, pan, text, valid_pans, pan_number, runs, pil_img, results, thrown,
                   ens_text, allow_single_word, is_valid, candidates, name,
                   person_name, father_name>>

NextFix == FixPanOcrErrors
SpecFix == InitFix /\ [][NextFix]_vars

\* C4: a string that already matches the grammar LLLLLDDDDL is returned
\* unchanged by _fix_pan_ocr_errors.
C4_FixIdentityOnValid ==
    (pc = "fix_done" /\ is_valid_pan_format(pan)) => corrected = pan
C4_Witness ==
    pc = "fix_done" /\ is_valid_pan_format(pan) /\ pan # BasePan /\ corrected = pan

\* the character the claim prescribes at 1-based position i of candidate s
C5_Expected(s, i) ==
    IF i \in {1, 2, 3, 4, 5, 10} /\ s[i] \in Digits
    THEN CASE s[i] = "0" -> "O" [] s[i] = "1" -> "I" [] s[i] = "5" -> "S"
           [] s[i] = "8" -> "B" [] s[i] = "3" -> "E" [] s[i] = "2" -> "Z"
           [] s[i] = "6" -> "G" [] s[i] = "9" -> "G" [] s[i] = "4" -> "A"
           [] s[i] = "7" -> "T"
    ELSE IF i \in {6, 7, 8, 9} /\ s[i] \in {"O","I","L","S","Z","B","G","J","R","T"}
    THEN CASE s[i] = "O" -> "0" [] s[i] = "I" -> "1" [] s[i] = "L" -> "1"
           [] s[i] = "S" -> "5" [] s[i] = "Z" -> "2" [] s[i] = "B" -> "8"
           [] s[i] = "G" -> "6" [] s[i] = "J" -> "5" [] s[i] = "R" -> "4"
           [] s[i] = "T" -> "7"
    ELSE s[i]
\* C5: on a 10-character candidate _fix_pan_ocr_errors maps each digit at
\* positions 0-4 and 9 through the digit-to-letter table, each table letter at
\* positions 5-8 through the letter-to-digit table, and leaves every other
\* character unchanged.
C5_FixByTables ==
    (pc = "fix_done" /\ Len(pan) = PanLen) =>
        /\ Len(corrected) = PanLen
        /\ \A i \in 1..PanLen : corrected[i] = C5_Expected(pan, i)
C5_Witness ==
    /\ pc = "fix_done"
    /\ pan = <<"H","J","T","P","B","9","8","B","1","M">>
    /\ corrected = <<"H","J","T","P","B","9","8","8","1","M">>

(***************************************************************************)
(* SpecRefix: _fix_pan_ocr_errors called on a string and then on its own   *)
(* result.  The inputs are those of SpecFix and the same strings in lower  *)
(* case, as they stand in a text before text.upper().                      *)
(***************************************************************************)
LowerOf == [c \in UpperLetters |-> LowerSeq[CHOOSE i \in 1..26 : UpperSeq[i] = c]]
RefixInputs ==
    FixInputs \cup {[i \in 1..Len(t) |-> IF t[i] \in UpperLetters THEN LowerOf[t[i]] ELSE t[i]] :
                       t \in FixInputs}

InitRefix ==
    /\ pc = "fix"
    /\ pan \in RefixInputs
    /\ corrected = Idle
    /\ refixed = Idle
    /\ text = Idle
    /\ IdlePan /\ IdleEnsemble /\ IdleValidName /\ IdleNames
    /\ IdleDob /\ IdleSweep /\ IdleData
    /\ IdleConf /\ IdleKyc /\ IdleRedis

\* the second call, on the value the first call returned
FixPanOcrErrorsAgain ==
    /\ pc = "fix_done"
    /\ refixed' = fix_pan_ocr_errors(corrected)
    /\ pc' = "fix_twice"
    /\ UNCHANGED <<confVars, kycVars, redisVars, dobVars, sweepVars, dataVars, pan, corrected,
                   text, valid_pans, pan_number, runs, pil_img, results, thrown,
                   ens_text, allow_single_word, is_valid, candidates, name,
                   person_name, father_name>>

NextRefix == FixPanOcrErrors \/ FixPanOcrErrorsAgain
SpecRefix == InitRefix /\ [][NextRefix]_vars

\* C28: _fix_pan_ocr_errors is idempotent on every string, valid or not: the
\* second call returns what the first returned; and the result for a string
\* of length at least 10 has no digit at positions 0-4 and 9.
C28_Idempotent ==
    /\ pc = "fix_twice" => refixed = corrected
    /\ (pc \in {"fix_done", "fix_twice"} /\ Len(pan) >= PanLen) =>
          \A i \in LetterZone : corrected[i] \notin Digits
C28_Witness ==
    /\ pc = "fix_twice"
    /\ pan = <<"h","j","t","p","b","9","s","8","1","m","x">>
    /\ corrected = <<"H","J","T","P","B","9","5","8","1","M","X">>
    /\ refixed = corrected
    /\ ~is_valid_pan_format(corrected)

(***************************************************************************)
(* SpecPan: extract_pan_number on bounded texts, one step per strategy.    *)
(* A text is the concatenation of at most MaxPanTokens tokens.             *)
(***************************************************************************)
MaxPanTokens == 3
PanTokens ==
    { <<"P","A","N">>, <<"\n">>, <<" ">>,
      <<"A","B","C","D","E","1","2","3","4","F">>,
      <<"X","Y","Z","A","B"," ","5","6","7","8"," ","C">>,
      <<"M","N","O","P","Q","O","2","S","4","R">>,
      <<"P","e","r","m","a","n","e","n","t"," ","A","c","c","o","u","n","t"," ","N","u","m","b","e","r">>,
      <<"h","j","7","p","b","9","8","8","1","m">> }
TokenLists(tokens, max) == UNION {[1..n -> tokens] : n \in 0..max}
PanTexts == {Flatten(ts) : ts \in TokenLists(PanTokens, MaxPanTokens)}

InitPan ==
    /\ pc = "pan_s1"
    /\ text \in PanTexts
    /\ valid_pans = <<>>
    /\ pan_number = Idle
    /\ IdleFix /\ IdleEnsemble /\ IdleValidName /\ IdleNames
    /\ IdleDob /\ IdleSweep /\ IdleData
    /\ IdleConf /\ IdleKyc /\ IdleRedis

PanUnchanged ==
    UNCHANGED <<confVars, kycVars, redisVars, refixed, dobVars, sweepVars, dataVars, pan, corrected, text, runs, pil_img, results, thrown, ens_text,
                allow_single_word, is_valid, candidates, name, person_name, father_name>>

\* a slip: strategy 1 falls through to strategy 2 with its candidates kept
PanStrategy1_NoReturn ==
    /\ pc = "pan_s1"
    /\ valid_pans' = Strategy1Pans(Upper(text))
    /\ pan_number' = pan_number
    /\ pc' = "pan_s2"
    /\ PanUnchanged
\* lines 271-302
PanStrategy1 ==
    /\ pc = "pan_s1"
    /\ LET found == Strategy1Pans(Upper(text))
       IN  /\ valid_pans' = found
           /\ IF found # <<>>
              THEN pan_number' = found[1] /\ pc' = "pan_ret1"
              ELSE pan_number' = pan_number /\ pc' = "pan_s2"
    /\ PanUnchanged

\* lines 304-319
PanStrategy2 ==
    /\ pc = "pan_s2"
    /\ LET found == Strategy2Pans(valid_pans, Upper(text))
       IN  /\ valid_pans' = found
           /\ IF found # <<>>
              THEN pan_number' = found[1] /\ pc' = "pan_ret2"
              ELSE pan_number' = pan_number /\ pc' = "pan_s3"
    /\ PanUnchanged

\* lines 321-346
PanStrategy3 ==
    /\ pc = "pan_s3"
    /\ LET found == Strategy3Pans(valid_pans, Upper(text))
       IN  /\ valid_pans' = found
           /\ IF found # <<>>
              THEN pan_number' = found[1] /\ pc' = "pan_ret3"
              ELSE pan_number' = None /\ pc' = "pan_none"
    /\ PanUnchanged

NextPan == PanStrategy1 \/ PanStrategy2 \/ PanStrategy3
SpecPan == InitPan /\ [][NextPan]_vars

PanReturned == pc \in {"pan_ret1", "pan_ret2", "pan_ret3", "pan_none"}
\* the grammar LLLLLDDDDL, stated on the characters
C1_Grammar(v) ==
    /\ Len(v) = 10
    /\ \A i \in {1, 2, 3, 4, 5, 10} : v[i] \in UpperLetters
    /\ \A i \in {6, 7, 8, 9} : v[i] \in Digits
\* C1: extract_pan_number returns None or a 10-character string of 5 upper-case
\* letters, 4 digits and 1 upper-case letter, whichever strategy returned it.
C1_PanResultValid ==
    PanReturned => (pan_number = None \/ C1_Grammar(pan_number))
C1_Witness ==
    /\ pc = "pan_ret3"
    /\ pan_number = <<"H","J","T","P","B","9","8","8","1","M">>

\* C2: the strategies run in the order label-anchored, regex sweep, sliding
\* window, and a strategy's candidate is returned only when every earlier
\* strategy found no valid candidate; the first strategy that finds one decides.
C2_StrategyOrder ==
    LET t == Upper(text)
        s1 == Strategy1Pans(t)
        s2 == Strategy2Pans(<<>>, t)
        s3 == Strategy3Pans(<<>>, t)
    IN  /\ pc \in {"pan_s2", "pan_ret2", "pan_s3", "pan_ret3", "pan_none"} => s1 = <<>>
        /\ pc \in {"pan_s3", "pan_ret3", "pan_none"} => s2 = <<>>
        /\ pc = "pan_none" => s3 = <<>>
        /\ pc = "pan_ret1" => pan_number = s1[1]
        /\ pc = "pan_ret2" => pan_number = s2[1]
        /\ pc = "pan_ret3" => pan_number = s3[1]
        /\ (PanReturned /\ s1 # <<>>) => pc = "pan_ret1"
        /\ (PanReturned /\ s1 = <<>> /\ s2 # <<>>) => pc = "pan_ret2"
\* the label line carries no candidate of strategy 1, the regex sweep finds one,
\* and the sliding window would have found a different one
C2_Witness ==
    /\ pc = "pan_ret2"
    /\ Strategy3Pans(<<>>, Upper(text)) # <<>>
    /\ Strategy3Pans(<<>>, Upper(text))[1] # pan_number

\* the candidates of the regex sweep with their places: pairs <<start, pan>> for
\* every match of either pattern whose corrected text is valid
Strategy2Placed(t) ==
    LET placed(pat) ==
            LET f == FindAll(pat, t)
            IN  {<<f[n][1], fix_pan_ocr_errors(RemoveWhitespace(f[n][2]))>> : n \in 1..Len(f)}
    IN  {c \in placed(1) \cup placed(2) : is_valid_pan_format(c[2])}
\* C3: when a strategy finds several valid candidates, the one returned is the
\* one that occurs earliest in the text: in the label-anchored scan (by line,
\* then offset), in the regex sweep over both patterns (by match start) and in
\* the sliding window (by offset).
C3_EarliestByPosition ==
    LET t == Upper(text)
        f1 == Strategy1Found(t)
        f3 == Strategy3Found(t)
    IN  /\ pc = "pan_ret1" =>
              \E n \in 1..Len(f1) :
                  /\ f1[n][3] = pan_number
                  /\ \A m \in 1..Len(f1) :
                        \/ f1[n][1] < f1[m][1]
                        \/ f1[n][1] = f1[m][1] /\ f1[n][2] <= f1[m][2]
        /\ pc = "pan_ret2" =>
              \E c \in Strategy2Placed(t) :
                  /\ c[2] = pan_number
                  /\ \A d \in Strategy2Placed(t) : c[1] <= d[1]
        /\ pc = "pan_ret3" =>
              \E n \in 1..Len(f3) :
                  /\ f3[n][2] = pan_number
                  /\ \A m \in 1..Len(f3) : f3[n][1] <= f3[m][1]

(***************************************************************************)
(* ensemble_tesseract_bytes                                                *)
(***************************************************************************)
\* texts = [t for t, _ in results if t]
NonEmptyTexts(res) ==
    LET hasText(r) == r.text # <<>>
        kept == SelectSeq(res, hasText)
    IN  [i \in 1..Len(kept) |-> kept[i].text]
\* Counter(texts)[t]
text_counts(texts, t) == Cardinality({i \in 1..Len(texts) : texts[i] = t})
\* a slip: among equally frequent texts the one that occurs last wins
most_common_LastTie(texts) ==
    LET best == CHOOSE i \in 1..Len(texts) :
            /\ \A j \in 1..Len(texts) :
                   text_counts(texts, texts[j]) <= text_counts(texts, texts[i])
            /\ \A j \in (i + 1)..Len(texts) :
                   text_counts(texts, texts[j]) < text_counts(texts, texts[i])
    IN  <<texts[best], text_counts(texts, texts[best])>>
\* Counter(texts).most_common(1)[0]: the pair (text, count) of the highest
\* count, the text inserted first among equals
most_common(texts) ==
    LET best == CHOOSE i \in 1..Len(texts) :
            /\ \A j \in 1..Len(texts) :
                   text_counts(texts, texts[j]) <= text_counts(texts, texts[i])
            /\ \A j \in 1..(i - 1) :
                   text_counts(texts, texts[j]) < text_counts(texts, texts[i])
    IN  <<texts[best], text_counts(texts, texts[best])>>
\* max(results, key=lambda x: x[1]): the first element of the highest confidence
MaxByConf(res) ==
    res[CHOOSE i \in 1..Len(res) :
            /\ \A j \in 1..Len(res) : res[j].conf <= res[i].conf
            /\ \A j \in 1..(i - 1) : res[j].conf < res[i].conf]
\* a slip: when all texts differ the texts are joined instead of one being chosen
Vote_Joined(res) ==
    LET texts == NonEmptyTexts(res)
        RECURSIVE joined(_)
        joined(ts) == IF ts = <<>> THEN <<>> ELSE Head(ts) \o joined(Tail(ts))
    IN  IF texts = <<>> THEN <<>>
        ELSE LET mc == most_common(texts)
             IN  IF mc[2] = 1 /\ Cardinality({texts[i] : i \in 1..Len(texts)}) = Len(texts)
                 THEN joined(texts)
                 ELSE mc[1]
\* lines 179-193
Vote(res) ==
    LET texts == NonEmptyTexts(res)
    IN  IF texts = <<>> THEN <<>>
        ELSE LET mc == most_common(texts)
             IN  IF mc[2] = 1 /\ Cardinality({texts[i] : i \in 1..Len(texts)}) = Len(texts)
                 THEN MaxByConf(res).text
                 ELSE mc[1]

(***************************************************************************)
(* SpecEnsemble: one call of ensemble_tesseract_bytes, one step per        *)
(* recognition attempt.  What Image.open and the engine do is an input.    *)
(***************************************************************************)
MaxRuns == 4
\* what one call of _pytesseract_text_and_conf can return
Attempts ==
    { [text |-> <<"A","B","C">>, conf |-> 90], [text |-> <<"A","B","C">>, conf |-> 40],
      [text |-> <<"X","Y","Z">>, conf |-> 95], [text |-> <<"X","Y","Z">>, conf |-> 0],
      [text |-> <<"A","A","A">>, conf |-> 50], [text |-> <<"B","B","B">>, conf |-> 90],
      [text |-> <<"C","C","C">>, conf |-> 10], [text |-> <<>>, conf |-> 0] }
\* text, conf = "", 0.0
EmptyAttempt == [text |-> <<>>, conf |-> 0]

InitEnsemble ==
    /\ pc = "ens_open"
    /\ runs \in 1..MaxRuns
    /\ pil_img = FALSE
    /\ results = <<>>
    /\ thrown = <<>>
    /\ ens_text = Idle
    /\ text = Idle
    /\ IdleFix /\ IdlePan /\ IdleValidName /\ IdleNames
    /\ IdleDob /\ IdleSweep /\ IdleData
    /\ IdleConf /\ IdleKyc /\ IdleRedis

EnsUnchanged ==
    UNCHANGED <<confVars, kycVars, redisVars, refixed, dobVars, sweepVars, dataVars, pan, corrected, text, valid_pans, pan_number,
                allow_single_word, is_valid, candidates, name, person_name, father_name>>

\* lines 167-168: Image.open gives an image
EnsembleOpen ==
    /\ pc = "ens_open"
    /\ pil_img' = TRUE
    /\ pc' = "ens_run"
    /\ UNCHANGED <<runs, results, thrown, ens_text>>
    /\ EnsUnchanged
\* lines 167, 195-197: Image.open raises, the outer handler returns ""
EnsembleOpenFails ==
    /\ pc = "ens_open"
    /\ ens_text' = <<>>
    /\ pc' = "ens_done"
    /\ UNCHANGED <<runs, pil_img, results, thrown>>
    /\ EnsUnchanged
\* lines 171-177, one iteration: the attempt returns
EnsembleRun ==
    /\ pc = "ens_run"
    /\ Len(results) < runs
    /\ \E a \in Attempts :
          /\ results' = Append(results, a)
          /\ thrown' = Append(thrown, FALSE)
    /\ UNCHANGED <<pc, runs, pil_img, ens_text>>
    /\ EnsUnchanged
\* a slip: no handler around the attempt, the outer handler returns ""
EnsembleRunRaises_NoCatch ==
    /\ pc = "ens_run"
    /\ Len(results) < runs
    /\ thrown' = Append(thrown, TRUE)
    /\ ens_text' = <<>>
    /\ pc' = "ens_done"
    /\ UNCHANGED <<runs, pil_img, results>>
    /\ EnsUnchanged
\* lines 172-176, one iteration: the attempt raises
EnsembleRunRaises ==
    /\ pc = "ens_run"
    /\ Len(results) < runs
    /\ results' = Append(results, EmptyAttempt)
    /\ thrown' = Append(thrown, TRUE)
    /\ UNCHANGED <<pc, runs, pil_img, ens_text>>
    /\ EnsUnchanged
\* lines 179-193
EnsembleVote ==
    /\ pc = "ens_run"
    /\ Len(results) = runs
    /\ ens_text' = Vote(results)
    /\ pc' = "ens_done"
    /\ UNCHANGED <<runs, pil_img, results, thrown>>
    /\ EnsUnchanged

NextEnsemble ==
    \/ EnsembleOpen
    \/ EnsembleOpenFails
    \/ EnsembleRun
    \/ EnsembleRunRaises
    \/ EnsembleVote
SpecEnsemble == InitEnsemble /\ [][NextEnsemble]_vars

\* the runs whose attempt yielded text
C6_WithText == {i \in 1..Len(results) : results[i].text # <<>>}
\* how many attempts yielded the text of attempt i
C6_Freq(i) == Cardinality({j \in C6_WithText : results[j].text = results[i].text})
\* the first attempt that yielded the text of attempt i
C6_First(i) == CHOOSE j \in C6_WithText :
    results[j].text = results[i].text /\ \A k \in 1..(j - 1) : results[k].text # results[i].text
\* C6: when some text occurs more than once among the non-empty attempts, the
\* vote returns the most frequent text, the first-occurring one among equally
\* frequent texts, whatever the confidences.
C6_MajorityWins ==
    (pc = "ens_done" /\ pil_img /\ \E i \in C6_WithText : C6_Freq(i) > 1) =>
        \E i \in C6_WithText :
            /\ ens_text = results[i].text
            /\ \A j \in C6_WithText :
                  \/ C6_Freq(j) < C6_Freq(i)
                  \/ C6_Freq(j) = C6_Freq(i) /\ C6_First(i) <= C6_First(j)
C6_Witness ==
    /\ pc = "ens_done"
    /\ results = << [text |-> <<"A","B","C">>, conf |-> 90], [text |-> <<"A","B","C">>, conf |-> 40],
                    [text |-> <<"X","Y","Z">>, conf |-> 95] >>
    /\ ens_text = <<"A","B","C">>

\* C7: empty-text attempts are discarded before selection; when the remaining
\* texts are all different the vote returns the text of a remaining attempt of
\* the highest confidence among them, and the result is non-empty whenever an
\* attempt yielded text.
C7_HighestConfidenceOfNonEmpty ==
    (pc = "ens_done" /\ pil_img /\ C6_WithText # {}) =>
        /\ ens_text # <<>>
        /\ (\A i \in C6_WithText : C6_Freq(i) = 1) =>
              \E i \in C6_WithText :
                  /\ ens_text = results[i].text
                  /\ \A j \in C6_WithText : results[j].conf <= results[i].conf

\* C8: when no attempt yields text the call returns the empty string and does
\* not raise, also when every attempt raises; an attempt that raises is
\* recorded as the attempt ("", 0.0) and the remaining attempts still run.
C8_SoftFailure ==
    /\ pc \in {"ens_open", "ens_run", "ens_done"}
    /\ pc = "ens_done" =>
          /\ C6_WithText = {} => ens_text = <<>>
          /\ pil_img => Len(results) = runs
    /\ Len(thrown) = Len(results)
    /\ \A i \in 1..Len(results) : thrown[i] => results[i] = [text |-> <<>>, conf |-> 0]
C8_Witness ==
    /\ pc = "ens_done"
    /\ runs = 3
    /\ Len(results) = 3
    /\ \A i \in 1..3 : thrown[i]
    /\ ens_text = <<>>

(***************************************************************************)
(* _clean_name, _correct_name_ocr_errors and _is_valid_name                *)
(***************************************************************************)
\* str.strip()
RECURSIVE StripLeft(_)
StripLeft(s) == IF s # <<>> /\ Head(s) \in Whitespace THEN StripLeft(Tail(s)) ELSE s
RECURSIVE StripRight(_)
StripRight(s) ==
    IF s # <<>> /\ s[Len(s)] \in Whitespace THEN StripRight(SubSeq(s, 1, Len(s) - 1)) ELSE s
Strip(s) == StripRight(StripLeft(s))
\* str.split(): the maximal runs of non-whitespace characters
RECURSIVE SplitWsFrom(_, _, _)
SplitWsFrom(s, start, i) ==
    IF i > Len(s)
    THEN IF start < i THEN <<SubSeq(s, start, i - 1)>> ELSE <<>>
    ELSE IF s[i] \in Whitespace
         THEN (IF start < i THEN <<SubSeq(s, start, i - 1)>> ELSE <<>>)
                  \o SplitWsFrom(s, i + 1, i + 1)
         ELSE SplitWsFrom(s, start, i + 1)
SplitWs(s) == SplitWsFrom(s, 1, 1)
\* ' '.join(words)
RECURSIVE JoinSpace(_)
JoinSpace(words) ==
    IF words = <<>> THEN <<>>
    ELSE IF Len(words) = 1 THEN words[1]
    ELSE words[1] \o <<" ">> \o JoinSpace(Tail(words))
\* re.sub(r'\s+', ' ', s)
RECURSIVE CollapseWs(_)
CollapseWs(s) ==
    IF s = <<>> THEN <<>>
    ELSE IF Head(s) \in Whitespace
         THEN <<" ">> \o CollapseWs(StripLeft(s))
         ELSE <<Head(s)>> \o CollapseWs(Tail(s))
\* re.sub(r'[^A-Z\s]', '', s)
KeepUpperAndWs(s) ==
    LET keep(c) == c \in UpperLetters \cup Whitespace IN SelectSeq(s, keep)
\* literal lit (upper case) anywhere in s, ignoring case
SearchLit(s, lit) == \E p \in 1..Len(s) : LitAt(s, p, lit)

\* the digit-to-letter map of _clean_name and _correct_name_ocr_errors
name_corrections ==
    ("0" :> "O") @@ ("1" :> "I") @@ ("5" :> "S") @@ ("8" :> "B") @@ ("3" :> "E")
ApplyNameCorrections(s) ==
    [i \in 1..Len(s) |->
        IF s[i] \in DOMAIN name_corrections THEN name_corrections[s[i]] ELSE s[i]]
\* lines 522-554: the generic corrections are never applied
correct_name_ocr_errors(n) == Strip(ApplyNameCorrections(Upper(n)))
\* len(set(word)) == 1 and len(word) >= 2
IsNoiseWord(word) == Len(word) >= 2 /\ \A i \in 1..Len(word) : word[i] = word[1]
clean_name(n) ==
    LET n1 == ApplyNameCorrections(Upper(CollapseWs(Strip(n))))
        n2 == correct_name_ocr_errors(n1)
        notNoise(word) == ~IsNoiseWord(word)
    IN  JoinSpace(SelectSeq(SplitWs(n2), notNoise))

exclude_patterns ==
    <<<<"I","N","C","O","M","E">>, <<"T","A","X">>, <<"D","E","P","A","R","T","M","E","N","T">>, <<"G","O","V","T">>, <<"I","N","D","I","A">>, <<"P","E","R","M","A","N","E","N","T">>,
      <<"A","C","C","O","U","N","T">>, <<"N","U","M","B","E","R">>, <<"C","A","R","D">>, <<"S","I","G","N","A","T","U","R","E">>, <<"D","A","T","E">>, <<"B","I","R","T","H">>, <<"F","A","T","H","E","R">>,
      <<"A","D","D","R","E","S","S">>, <<"P","A","N">>, <<"G","O","V","E","R","N","M","E","N","T">>, <<"M","I","N","I","S","T","R","Y">>, <<"O","F","F","I","C","I","A","L">>>>
MinNameLen == 5
MinWordLen == 3
MaxWordLen == 15
MaxVowelRun == 3
MaxConsonantRun == 4
Vowels == {"A", "E", "I", "O", "U"}
\* lines 508-518 from character i of word, with the two counters as they stand
RECURSIVE PronounceableFrom(_, _, _, _, _)
PronounceableFrom(word, i, vowel_count, consonant_count, maxConsonant) ==
    IF i > Len(word) THEN TRUE
    ELSE IF word[i] \in Vowels
         THEN IF vowel_count + 1 > MaxVowelRun THEN FALSE
              ELSE PronounceableFrom(word, i + 1, vowel_count + 1, 0, maxConsonant)
         ELSE IF word[i] \notin {" ", "-"}
              THEN IF consonant_count + 1 > maxConsonant THEN FALSE
                   ELSE PronounceableFrom(word, i + 1, 0, consonant_count + 1, maxConsonant)
              ELSE PronounceableFrom(word, i + 1, vowel_count, consonant_count, maxConsonant)
\* a slip: the keyword test is left out
NameShapeOk_NoKeywords(t, allow) ==
    LET text_upper == Strip(Upper(t))
        words == SplitWs(text_upper)
    IN  /\ Len(text_upper) >= MinNameLen
        /\ ~(Len(words) < 2 /\ ~allow)
        /\ Len(words) >= 1
        /\ \A n \in 1..Len(words) :
              /\ Len(words[n]) >= MinWordLen /\ Len(words[n]) <= MaxWordLen
              /\ \A i \in 1..Len(words[n]) :
                    IsAlpha(words[n][i]) \/ words[n][i] \in {" ", "-"}
\* lines 473-500: everything before the pronounceability loop
NameShapeOk(t, allow) ==
    LET text_upper == Strip(Upper(t))
        words == SplitWs(text_upper)
    IN  /\ Len(text_upper) >= MinNameLen
        /\ \A n \in 1..Len(exclude_patterns) : ~Contains(text_upper, exclude_patterns[n])
        /\ ~(Len(words) < 2 /\ ~allow)
        /\ Len(words) >= 1
        /\ \A n \in 1..Len(words) :
              /\ Len(words[n]) >= MinWordLen /\ Len(words[n]) <= MaxWordLen
              /\ \A i \in 1..Len(words[n]) :
                    IsAlpha(words[n][i]) \/ words[n][i] \in {" ", "-"}
\* a slip: the consonant test allows one more consonant, > 5
is_valid_name_LongerRuns(t, allow) ==
    /\ NameShapeOk(t, allow)
    /\ LET words == SplitWs(Strip(Upper(t)))
       IN  \A n \in 1..Len(words) :
               PronounceableFrom(words[n], 1, 0, 0, MaxConsonantRun + 1)
is_valid_name(t, allow) ==
    /\ NameShapeOk(t, allow)
    /\ LET words == SplitWs(Strip(Upper(t)))
       IN  \A n \in 1..Len(words) : PronounceableFrom(words[n], 1, 0, 0, MaxConsonantRun)

(***************************************************************************)
(* extract_name                                                            *)
(***************************************************************************)
\* [line.strip() for line in lines if line.strip()]
cleaned_lines(t) ==
    LET lines == SplitLines(t)
        stripped == [i \in 1..Len(lines) |-> Strip(lines[i])]
        nonEmpty(l) == l # <<>>
    IN  SelectSeq(stripped, nonEmpty)
\* an optional character c (upper case) at index p, ignoring case
OptChar(s, p, c) == IF p <= Len(s) /\ CharUpper(s[p]) = c THEN p + 1 ELSE p
\* Father'?s?\s*Name at index p, ignoring case: the index after it, or 0
FatherNameEnd(s, p) ==
    IF ~LitAt(s, p, <<"F","A","T","H","E","R">>) THEN 0
    ELSE LET q == SkipWs(s, OptChar(s, OptChar(s, p + 6, "'"), "S"))
         IN  IF LitAt(s, q, <<"N","A","M","E">>) THEN q + 4 ELSE 0
\* (Father'?s?\s*Name|/FN|F/FN), IGNORECASE
IsFatherLabelLine(line) ==
    \E p \in 1..Len(line) :
        \/ FatherNameEnd(line, p) # 0
        \/ LitAt(line, p, <<"/","F","N">>)
        \/ LitAt(line, p, <<"F","/","F","N">>)
\* the first line with the label, 0-based, or -1
father_line_index(cl) ==
    IF \E i \in 1..Len(cl) : IsFatherLabelLine(cl[i])
    THEN (CHOOSE i \in 1..Len(cl) :
              IsFatherLabelLine(cl[i]) /\ \A k \in 1..(i - 1) : ~IsFatherLabelLine(cl[k])) - 1
    ELSE -1
\* (TAX|DEPT|INCOME|GOVT|CARD|NUMBER) in a word
noise_tokens == <<<<"T","A","X">>, <<"D","E","P","T">>, <<"I","N","C","O","M","E">>, <<"G","O","V","T">>, <<"C","A","R","D">>, <<"N","U","M","B","E","R">>>>
IsNoiseToken(word) == \E n \in 1..Len(noise_tokens) : Contains(word, noise_tokens[n])
MaxNameWords == 4
\* lines 414-419: the loop over words[:4], from word i with name_words = acc
RECURSIVE NameWordsFrom(_, _, _)
NameWordsFrom(words, i, acc) ==
    IF i > Min(MaxNameWords, Len(words)) THEN acc
    ELSE IF Len(words[i]) >= 3 /\ ~IsNoiseToken(words[i])
         THEN NameWordsFrom(words, i + 1, Append(acc, words[i]))
         ELSE IF Len(acc) >= 2 THEN acc
              ELSE NameWordsFrom(words, i + 1, acc)
Candidate(v, st, d) == [value |-> v, strategy |-> st, dist |-> d]
\* lines 398-425: the candidates of strategy 1
NameStrategy1Candidates(t) ==
    LET cl == cleaned_lines(t)
        idx == father_line_index(cl)
    IN  IF idx > 0
        THEN LET line_clean == Strip(KeepUpperAndWs(Upper(cl[idx])))
                 words == SplitWs(line_clean)
                 name_words == NameWordsFrom(words, 1, <<>>)
                 cleaned_name == clean_name(JoinSpace(name_words))
             IN  IF Len(words) >= 2 /\ Len(name_words) >= 2 /\ is_valid_name(cleaned_name, FALSE)
                 THEN <<Candidate(cleaned_name, "before_father", 0)>>
                 ELSE <<>>
        ELSE <<>>
\* \bName\b without Father|Mother|F/|/FN, IGNORECASE
IsNameLabelLine(line) ==
    /\ \E p \in 1..Len(line) :
          LitAt(line, p, <<"N","A","M","E">>) /\ WordBoundary(line, p) /\ WordBoundary(line, p + 4)
    /\ ~SearchLit(line, <<"F","A","T","H","E","R">>) /\ ~SearchLit(line, <<"M","O","T","H","E","R">>)
    /\ ~SearchLit(line, <<"F","/">>) /\ ~SearchLit(line, <<"/","F","N">>)
\* (Father|Mother|F/|/FN|Date|Birth|Signature|Address), IGNORECASE
IsOtherLabelLine(line) ==
    \/ SearchLit(line, <<"F","A","T","H","E","R">>) \/ SearchLit(line, <<"M","O","T","H","E","R">>)
    \/ SearchLit(line, <<"F","/">>) \/ SearchLit(line, <<"/","F","N">>)
    \/ SearchLit(line, <<"D","A","T","E">>) \/ SearchLit(line, <<"B","I","R","T","H">>)
    \/ SearchLit(line, <<"S","I","G","N","A","T","U","R","E">>) \/ SearchLit(line, <<"A","D","D","R","E","S","S">>)
NameLabelScanLines == 4
\* lines 432-443 for the label at line i (1-based), from offset j
RECURSIVE NameLabelScan(_, _, _)
NameLabelScan(cl, i, j) ==
    IF j >= Min(NameLabelScanLines, Len(cl) - i + 1) THEN <<>>
    ELSE LET next_line == cl[i + j]
             next_line_clean == Strip(KeepUpperAndWs(Upper(next_line)))
             cleaned_name == clean_name(next_line_clean)
         IN  IF IsOtherLabelLine(next_line) THEN <<>>
             ELSE (IF Len(next_line_clean) >= 5 /\ is_valid_name(cleaned_name, FALSE)
                   THEN <<Candidate(cleaned_name, "label", j)>> ELSE <<>>)
                      \o NameLabelScan(cl, i, j + 1)
\* lines 429-443: the candidates of strategy 2
NameStrategy2Candidates(t) ==
    LET cl == cleaned_lines(t)
    IN  Flatten([i \in 1..Len(cl) |->
            IF IsNameLabelLine(cl[i]) THEN NameLabelScan(cl, i, 1) ELSE <<>>])
\* the index after the maximal run of [A-Z] that starts at index p
RECURSIVE UpperRunEnd(_, _)
UpperRunEnd(s, p) == IF p <= Len(s) /\ s[p] \in UpperLetters THEN UpperRunEnd(s, p + 1) ELSE p
\* \b([A-Z]{3,}\s+[A-Z]{3,}(?:\s+[A-Z]{3,})?)\b at index p: the index after the
\* match, or 0
NamePatternEnd(s, p) ==
    LET e1 == UpperRunEnd(s, p)
        w1 == SkipWs(s, e1)
        e2 == UpperRunEnd(s, w1)
        w2 == SkipWs(s, e2)
        e3 == UpperRunEnd(s, w2)
    IN  IF ~(WordBoundary(s, p) /\ e1 - p >= 3 /\ w1 > e1 /\ e2 - w1 >= 3) THEN 0
        ELSE IF w2 > e2 /\ e3 - w2 >= 3 /\ WordBoundary(s, e3) THEN e3
        ELSE IF WordBoundary(s, e2) THEN e2
        ELSE 0
\* \b([A-Z]{4,})\b at index p: the index after the match, or 0
SingleWordPatternEnd(s, p) ==
    LET e == UpperRunEnd(s, p)
    IN  IF WordBoundary(s, p) /\ e - p >= 4 /\ WordBoundary(s, e) THEN e ELSE 0
\* re.findall of one of the two patterns: the matches from left to right
RECURSIVE FindNamesFrom(_, _, _)
FindNamesFrom(pat, s, p) ==
    IF p > Len(s) THEN <<>>
    ELSE LET e == IF pat = "name" THEN NamePatternEnd(s, p) ELSE SingleWordPatternEnd(s, p)
         IN  IF e # 0 THEN <<SubSeq(s, p, e - 1)>> \o FindNamesFrom(pat, s, e)
             ELSE FindNamesFrom(pat, s, p + 1)
\* lines 447-456: the candidates of strategy 3, the first valid match
NameStrategy3Candidates(t) ==
    LET matches == FindNamesFrom("name", JoinSpace(cleaned_lines(t)), 1)
        valid(m) == is_valid_name(clean_name(m), FALSE)
        ok == SelectSeq(matches, valid)
    IN  IF ok = <<>> THEN <<>> ELSE <<Candidate(clean_name(ok[1]), "pattern", 0)>>
\* tuple comparison of two sort keys
RECURSIVE KeyLess(_, _)
KeyLess(a, b) ==
    IF a = <<>> THEN FALSE
    ELSE IF Head(a) # Head(b) THEN Head(a) < Head(b)
    ELSE KeyLess(Tail(a), Tail(b))
Flag(b) == IF b THEN 1 ELSE 0
\* key=lambda x: (x[1] != 'before_father', x[1] != 'label', x[2])
NameSortKey(c) ==
    <<Flag(c.strategy # "before_father"), Flag(c.strategy # "label"), c.dist>>
\* candidates.sort(key=...); candidates[0][0]: the first candidate of the least key
BestName(cands) ==
    IF cands = <<>> THEN None
    ELSE cands[CHOOSE i \in 1..Len(cands) :
            /\ \A k \in 1..Len(cands) : ~KeyLess(NameSortKey(cands[k]), NameSortKey(cands[i]))
            /\ \A k \in 1..(i - 1) : KeyLess(NameSortKey(cands[i]), NameSortKey(cands[k]))].value
\* the list candidates after each of the guarded strategies
\* a slip: the label scan is tried before the line above the father label
NameAfterStrategy2_LabelFirst(cands, t) ==
    IF NameStrategy2Candidates(t) # <<>> THEN NameStrategy2Candidates(t) ELSE cands
NameAfterStrategy2(cands, t) == IF cands = <<>> THEN NameStrategy2Candidates(t) ELSE cands
NameAfterStrategy3(cands, t) == IF cands = <<>> THEN NameStrategy3Candidates(t) ELSE cands
extract_name(t) ==
    BestName(NameAfterStrategy3(NameAfterStrategy2(NameStrategy1Candidates(t), t), t))

(***************************************************************************)
(* extract_father_name                                                     *)
(***************************************************************************)
\* Father'?s?\s*Name|FN\b, IGNORECASE
IsFatherOrFnLine(line) ==
    \E p \in 1..Len(line) :
        \/ FatherNameEnd(line, p) # 0
        \/ LitAt(line, p, <<"F","N">>) /\ WordBoundary(line, p + 2)
\* the index after the maximal run of [:\s/] that starts at index p
RECURSIVE SeparatorRunEnd(_, _)
SeparatorRunEnd(s, p) ==
    IF p <= Len(s) /\ s[p] \in (Whitespace \cup {":", "/"})
    THEN SeparatorRunEnd(s, p + 1) ELSE p
\* (?:\s+\d|\s*$) matches at index h
SameLineTailAt(s, h) ==
    LET w == SkipWs(s, h)
    IN  \/ w > h /\ w <= Len(s) /\ IsDigit(s[w])
        \/ w > Len(s)
\* [:\s/]+([A-Z][A-Z\s]+?)(?:\s+\d|\s*$) from index e, the end of the label,
\* ignoring case: the group, or None
SameLineGroupFrom(s, e) ==
    LET g == SeparatorRunEnd(s, e)
        ends == {h \in (g + 2)..(Len(s) + 1) :
                    /\ \A k \in (g + 1)..(h - 1) : IsAlpha(s[k]) \/ s[k] \in Whitespace
                    /\ SameLineTailAt(s, h)}
    IN  IF g = e \/ g > Len(s) THEN None
        ELSE IF ~IsAlpha(s[g]) \/ ends = {} THEN None
        ELSE SubSeq(s, g, (CHOOSE h \in ends : \A k \in ends : h <= k) - 1)
\* the group of the match that starts at index p: the label alternatives in
\* their order, or None
SameLineGroupAt(s, p) ==
    LET viaFather == IF FatherNameEnd(s, p) # 0
                     THEN SameLineGroupFrom(s, FatherNameEnd(s, p)) ELSE None
        viaFn == IF LitAt(s, p, <<"F","N">>) THEN SameLineGroupFrom(s, p + 2) ELSE None
    IN  IF viaFather # None THEN viaFather ELSE viaFn
\* re.search(...).group(1) on the line, or None: the leftmost match
SameLineGroup(line) ==
    LET starts == {p \in 1..Len(line) : SameLineGroupAt(line, p) # None}
    IN  IF starts = {} THEN None
        ELSE SameLineGroupAt(line, CHOOSE p \in starts : \A q \in starts : p <= q)
\* lines 595-604: the same-line candidates of the label line
SameLineCandidates(line, person) ==
    LET group == SameLineGroup(line)
        name_clean == Strip(KeepUpperAndWs(Strip(group)))
        cleaned_name == clean_name(name_clean)
    IN  IF group # None /\ Len(name_clean) >= 3
           /\ is_valid_name(cleaned_name, TRUE) /\ cleaned_name # person
        THEN <<Candidate(cleaned_name, "same_line", 0)>>
        ELSE <<>>
\* (Date|Birth|Signature|Address), IGNORECASE
IsFatherStopLine(line) ==
    \/ SearchLit(line, <<"D","A","T","E">>) \/ SearchLit(line, <<"B","I","R","T","H">>)
    \/ SearchLit(line, <<"S","I","G","N","A","T","U","R","E">>) \/ SearchLit(line, <<"A","D","D","R","E","S","S">>)
FatherLabelScanLines == 3
\* a slip: the line is not compared with the person's name
NextLineCandidates_NoPersonCheck(cleaned_name, person, j) ==
    IF ~is_valid_name(cleaned_name, TRUE) THEN <<>>
    ELSE IF person # None /\ Len(SplitWs(cleaned_name)) = 1
         THEN IF Len(SplitWs(person)) > 1 /\ InList(cleaned_name, SplitWs(person))
              THEN <<Candidate(cleaned_name, "single_word_match", j)>>
              ELSE <<>>
         ELSE <<Candidate(cleaned_name, "label", j)>>
\* lines 619-630: what one following line appends
NextLineCandidates(cleaned_name, person, j) ==
    IF ~(is_valid_name(cleaned_name, TRUE) /\ cleaned_name # person) THEN <<>>
    ELSE IF person # None /\ Len(SplitWs(cleaned_name)) = 1
         THEN IF Len(SplitWs(person)) > 1 /\ InList(cleaned_name, SplitWs(person))
              THEN <<Candidate(cleaned_name, "single_word_match", j)>>
              ELSE <<>>
         ELSE <<Candidate(cleaned_name, "label", j)>>
\* lines 607-630 for the label at line i (1-based), from offset j
RECURSIVE FatherLabelScan(_, _, _, _)
FatherLabelScan(cl, i, j, person) ==
    IF j >= Min(FatherLabelScanLines, Len(cl) - i + 1) THEN <<>>
    ELSE LET next_line == cl[i + j]
             next_line_clean == Strip(KeepUpperAndWs(Upper(next_line)))
         IN  IF IsFatherStopLine(next_line) THEN <<>>
             ELSE (IF Len(next_line_clean) >= 3
                   THEN NextLineCandidates(clean_name(next_line_clean), person, j)
                   ELSE <<>>)
                      \o FatherLabelScan(cl, i, j + 1, person)
\* lines 591-630: the candidates of the label strategies
FatherStrategy1Candidates(t, person) ==
    LET cl == cleaned_lines(t)
    IN  Flatten([i \in 1..Len(cl) |->
            IF IsFatherOrFnLine(cl[i])
            THEN SameLineCandidates(cl[i], person) \o FatherLabelScan(cl, i, 1, person)
            ELSE <<>>])
\* a slip: the last word is taken without validation
LastWordCandidates_Unchecked(person) ==
    IF person = None THEN <<>>
    ELSE LET person_words == SplitWs(person)
         IN  IF Len(person_words) >= 2
             THEN <<Candidate(person_words[Len(person_words)], "last_word_extraction", 0)>>
             ELSE <<>>
\* lines 634-641 past the guard: the last word of the person's name
LastWordCandidates(person) ==
    IF person = None THEN <<>>
    ELSE LET person_words == SplitWs(person)
             potential_father_name == person_words[Len(person_words)]
         IN  IF /\ Len(person_words) >= 2
                /\ Len(potential_father_name) >= 3
                /\ is_valid_name(potential_father_name, TRUE)
             THEN <<Candidate(potential_father_name, "last_word_extraction", 0)>>
             ELSE <<>>
\* (INCOME|GOVERNMENT|DEPARTMENT|PERMANENT|ACCOUNT|NUMBER|CARD|INDIA)
card_words ==
    <<<<"I","N","C","O","M","E">>, <<"G","O","V","E","R","N","M","E","N","T">>, <<"D","E","P","A","R","T","M","E","N","T">>, <<"P","E","R","M","A","N","E","N","T">>, <<"A","C","C","O","U","N","T">>, <<"N","U","M","B","E","R">>,
      <<"C","A","R","D">>, <<"I","N","D","I","A">>>>
IsCardWord(w) == \E n \in 1..Len(card_words) : Contains(w, card_words[n])
\* lines 650-657: the loop over the matches, with candidates = acc
RECURSIVE FallbackLoop(_, _, _)
FallbackLoop(matches, person, acc) ==
    IF matches = <<>> THEN acc
    ELSE LET cleaned_name == clean_name(Head(matches))
             known == [n \in 1..Len(acc) |-> acc[n].value]
         IN  FallbackLoop(Tail(matches), person,
                 IF /\ is_valid_name(cleaned_name, TRUE)
                    /\ cleaned_name # person
                    /\ ~InList(cleaned_name, known)
                    /\ ~IsCardWord(cleaned_name)
                 THEN Append(acc, Candidate(cleaned_name, "single_word_pattern", 0))
                 ELSE acc)
\* lines 645-657 past the guard
FallbackCandidates(t, person) ==
    FallbackLoop(FindNamesFrom("single", JoinSpace(cleaned_lines(t)), 1), person, <<>>)
\* the sort key of lines 661-667
FatherSortKey(c) ==
    <<Flag(c.strategy # "single_word_match"), Flag(c.strategy # "same_line"),
      Flag(c.strategy # "last_word_extraction"), Flag(c.strategy # "label"), c.dist>>
\* candidates.sort(key=...); candidates[0][0]
BestFather(cands) ==
    IF cands = <<>> THEN None
    ELSE cands[CHOOSE i \in 1..Len(cands) :
            /\ \A k \in 1..Len(cands) : ~KeyLess(FatherSortKey(cands[k]), FatherSortKey(cands[i]))
            /\ \A k \in 1..(i - 1) : KeyLess(FatherSortKey(cands[i]), FatherSortKey(cands[k]))].value
FatherAfterStrategy2(cands, person) ==
    IF cands = <<>> /\ person # None THEN LastWordCandidates(person) ELSE cands
FatherAfterStrategy3(cands, t, person) ==
    IF cands = <<>> THEN FallbackCandidates(t, person) ELSE cands
extract_father_name(t) ==
    LET person == extract_name(t)
    IN  BestFather(FatherAfterStrategy3(
            FatherAfterStrategy2(FatherStrategy1Candidates(t, person), person), t, person))

(***************************************************************************)
(* extract_dob                                                             *)
(***************************************************************************)
DigitChars == <<"0", "1", "2", "3", "4", "5", "6", "7", "8", "9">>
\* int() of a string of digits
RECURSIVE ToInt(_)
ToInt(ds) ==
    IF ds = <<>> THEN 0
    ELSE 10 * ToInt(SubSeq(ds, 1, Len(ds) - 1))
             + (CHOOSE n \in 0..9 : DigitChars[n + 1] = ds[Len(ds)])
\* f"{n}"
RECURSIVE FormatInt(_)
FormatInt(n) ==
    IF n < 10 THEN <<DigitChars[n + 1]>>
    ELSE FormatInt(n \div 10) \o <<DigitChars[(n % 10) + 1]>>
\* f"{n:02d}"
Pad2(n) == IF n < 10 THEN <<"0">> \o FormatInt(n) ELSE FormatInt(n)
\* f"{day:02d}/{month:02d}/{year}"
FormatDate(day, month, year) ==
    Pad2(day) \o <<"/">> \o Pad2(month) \o <<"/">> \o FormatInt(year)
\* the class [/\.\-]
DateSeps == {"/", ".", "-"}
\* \d{n} matches at index p
DigitsAt(s, p, n) == p + n - 1 <= Len(s) /\ \A i \in 0..(n - 1) : IsDigit(s[p + i])
SepAt(s, p) == p <= Len(s) /\ s[p] \in DateSeps
\* a\d sep b\d sep c\d matches at index p
DateShapeAt(s, p, a, b, c) ==
    /\ DigitsAt(s, p, a) /\ SepAt(s, p + a)
    /\ DigitsAt(s, p + a + 1, b) /\ SepAt(s, p + a + b + 1)
    /\ DigitsAt(s, p + a + b + 2, c)
\* the groups and the end of a match of the given widths at index p
DateMatch(s, p, a, b, c) ==
    [g1 |-> SubSeq(s, p, p + a - 1),
     g2 |-> SubSeq(s, p + a + 1, p + a + b),
     g3 |-> SubSeq(s, p + a + b + 2, p + a + b + c + 1),
     start |-> p,
     end |-> p + a + b + c + 2]
\* the widths the groups take at index p, the wider first as a greedy
\* quantifier tries them: pattern 1 is (\d{1,2})[/\.\-](\d{1,2})[/\.\-](\d{4}),
\* pattern 2 is (\d{4})[/\.\-](\d{1,2})[/\.\-](\d{1,2})
DateWidths(pattern) ==
    IF pattern = 1
    THEN <<<<2, 2, 4>>, <<2, 1, 4>>, <<1, 2, 4>>, <<1, 1, 4>>>>
    ELSE <<<<4, 2, 2>>, <<4, 2, 1>>, <<4, 1, 2>>, <<4, 1, 1>>>>
\* the match of the pattern at index p, as a list of at most one match
DateMatchAt(pattern, s, p) ==
    LET ws == DateWidths(pattern)
        fits == {k \in 1..Len(ws) : DateShapeAt(s, p, ws[k][1], ws[k][2], ws[k][3])}
    IN  IF fits = {} THEN <<>>
        ELSE LET w == ws[CHOOSE k \in fits : \A l \in fits : k <= l]
             IN  <<DateMatch(s, p, w[1], w[2], w[3])>>
\* re.findall(pattern, text): the matches from index p on, left to right,
\* without overlap
RECURSIVE DateFindAll(_, _, _)
DateFindAll(pattern, s, p) ==
    IF p > Len(s) THEN <<>>
    ELSE LET m == DateMatchAt(pattern, s, p)
         IN  IF m = <<>> THEN DateFindAll(pattern, s, p + 1)
             ELSE m \o DateFindAll(pattern, s, m[1].end)
\* lines 688-691: <<day, month, year>> of a match
DateFields(m) ==
    IF Len(m.g1) = 4
    THEN <<ToInt(m.g3), ToInt(m.g2), ToInt(m.g1)>>
    ELSE <<ToInt(m.g1), ToInt(m.g2), ToInt(m.g3)>>
\* a slip: the year is not checked
InDateRange_AnyYear(day, month, year) ==
    1 <= day /\ day <= 31 /\ 1 <= month /\ month <= 12
\* line 694
InDateRange(day, month, year) ==
    1 <= day /\ day <= 31 /\ 1 <= month /\ month <= 12 /\ 1920 <= year /\ year <= 2010
\* lines 685-697 for the matches of one pattern
RECURSIVE AppendValidDates(_, _)
AppendValidDates(acc, matches) ==
    IF matches = <<>> THEN acc
    ELSE LET f == DateFields(Head(matches))
         IN  AppendValidDates(
                 IF InDateRange(f[1], f[2], f[3])
                 THEN Append(acc, FormatDate(f[1], f[2], f[3]))
                 ELSE acc,
                 Tail(matches))
\* lines 683-697 for one pattern
DatesOfPattern(acc, pattern, t) == AppendValidDates(acc, DateFindAll(pattern, t, 1))
extract_dob(t) ==
    LET dates == DatesOfPattern(DatesOfPattern(<<>>, 1, t), 2, t)
    IN  IF dates # <<>> THEN dates[1] ELSE None

\* C27: the string a call of ensemble_tesseract_bytes returns is the empty
\* string or the text of one of the recognition attempts of that call.
C27_ReturnsAnAttemptText ==
    pc = "ens_done" =>
        \/ ens_text = <<>>
        \/ \E i \in 1..Len(results) : ens_text = results[i].text
C27_Witness ==
    /\ pc = "ens_done"
    /\ results = << [text |-> <<"A","B","C">>, conf |-> 40], [text |-> <<>>, conf |-> 0],
                    [text |-> <<"X","Y","Z">>, conf |-> 95] >>
    /\ thrown = <<FALSE, TRUE, FALSE>>
    /\ ens_text = <<"X","Y","Z">>

(***************************************************************************)
(* SpecValidName: _is_valid_name on every string of at most MaxNameChars   *)
(* characters over a vowel, a consonant, the blank and the hyphen.         *)
(***************************************************************************)
MaxNameChars == 7
NameAlphabet == {"A", "B", " ", "-"}
NameStrings == UNION {[1..n -> NameAlphabet] : n \in 0..MaxNameChars}

InitValidName ==
    /\ pc = "valid"
    /\ text \in NameStrings
    /\ allow_single_word \in BOOLEAN
    /\ is_valid = FALSE
    /\ IdleFix /\ IdlePan /\ IdleEnsemble /\ IdleNames
    /\ IdleDob /\ IdleSweep /\ IdleData
    /\ IdleConf /\ IdleKyc /\ IdleRedis

IsValidName ==
    /\ pc = "valid"
    /\ is_valid' = is_valid_name(text, allow_single_word)
    /\ pc' = "valid_done"
    /\ UNCHANGED <<confVars, kycVars, redisVars, refixed, dobVars, sweepVars, dataVars, pan, corrected, text, valid_pans, pan_number, runs, pil_img,
                   results, thrown, ens_text, allow_single_word, candidates, name,
                   person_name, father_name>>

NextValidName == IsValidName
SpecValidName == InitValidName /\ [][NextValidName]_vars

\* the text holds k consecutive letters of the class cls inside one word
C10_HasRun(t, cls, k) ==
    \E p \in 1..(Len(t) - k + 1) : \A i \in 0..(k - 1) : t[p + i] \in cls
C10_Consonants == UpperLetters \ Vowels
\* C10 as stated: a name with a word of 4 or more consecutive consonants, or of
\* 4 or more consecutive vowels, is rejected.
C10_RejectsRunsOfFour ==
    (pc = "valid_done" /\ (C10_HasRun(text, C10_Consonants, 4) \/ C10_HasRun(text, Vowels, 4)))
        => ~is_valid
\* C10 amended: a name with a word of 5 or more consecutive consonants, or of
\* 4 or more consecutive vowels, is rejected.
C10_RejectsLongRuns ==
    (pc = "valid_done" /\ (C10_HasRun(text, C10_Consonants, 5) \/ C10_HasRun(text, Vowels, 4)))
        => ~is_valid
\* a name that fails only for its run of 5 consonants: with 4 it is accepted
C10_Witness ==
    /\ pc = "valid_done"
    /\ text = <<"A","B","B","B","B","B">>
    /\ allow_single_word
    /\ ~is_valid

(***************************************************************************)
(* SpecNames: extract_name, then extract_father_name, on one text, as      *)
(* extract_pan_data calls them; one step per strategy.  A text is at most  *)
(* MaxNameLines lines drawn from NameLines.                                *)
(***************************************************************************)
MaxNameLines == 3
NameLines ==
    { <<"A","S","H","W","I","N"," ","B","A","L","A","G","U","R","U">>, <<"F","a","t","h","e","r","'","s"," ","N","a","m","e">>, <<"B","A","L","A","G","U","R","U">>, <<"N","a","m","e">>,
      <<"F","a","t","h","e","r","'","s"," ","N","a","m","e",":"," ","R","A","M","E","S","H">>, <<"I","N","C","O","M","E"," ","T","A","X"," ","D","E","P","A","R","T","M","E","N","T">>, <<"D","a","t","e"," ","o","f"," ","B","i","r","t","h">>,
      <<"S","U","N","I","L"," ","R","A","O"," ","E","E","E">>,
      <<"R","A","M"," ","D","E","V"," ","A","N","I","L"," ","S","U","N","I","L"," ","K","U","M","A","R">> }
\* the lines joined by '\n'
RECURSIVE JoinLines(_)
JoinLines(ls) ==
    IF ls = <<>> THEN <<>>
    ELSE IF Len(ls) = 1 THEN ls[1]
    ELSE ls[1] \o <<"\n">> \o JoinLines(Tail(ls))
NameTexts == {JoinLines(ls) : ls \in TokenLists(NameLines, MaxNameLines)}

InitNames ==
    /\ pc = "name_s1"
    /\ text \in NameTexts
    /\ candidates = <<>>
    /\ name = Idle
    /\ person_name = Idle
    /\ father_name = Idle
    /\ IdleFix /\ IdlePan /\ IdleEnsemble /\ IdleValidName
    /\ IdleDob /\ IdleSweep /\ IdleData
    /\ IdleConf /\ IdleKyc /\ IdleRedis

NamesUnchanged ==
    UNCHANGED <<confVars, kycVars, redisVars, refixed, dobVars, sweepVars, dataVars, pan, corrected, text, valid_pans, pan_number, runs, pil_img,
                results, thrown, ens_text, allow_single_word, is_valid>>

\* extract_name, lines 391-425
NameStrategy1 ==
    /\ pc = "name_s1"
    /\ candidates' = NameStrategy1Candidates(text)
    /\ pc' = "name_s2"
    /\ UNCHANGED <<name, person_name, father_name>>
    /\ NamesUnchanged
\* extract_name, lines 427-443
NameStrategy2 ==
    /\ pc = "name_s2"
    /\ candidates' = NameAfterStrategy2(candidates, text)
    /\ pc' = "name_s3"
    /\ UNCHANGED <<name, person_name, father_name>>
    /\ NamesUnchanged
\* extract_name, lines 445-456
NameStrategy3 ==
    /\ pc = "name_s3"
    /\ candidates' = NameAfterStrategy3(candidates, text)
    /\ pc' = "name_ret"
    /\ UNCHANGED <<name, person_name, father_name>>
    /\ NamesUnchanged
\* extract_name, lines 458-463
NameReturn ==
    /\ pc = "name_ret"
    /\ name' = BestName(candidates)
    /\ candidates' = <<>>
    /\ pc' = "father_s1"
    /\ UNCHANGED <<person_name, father_name>>
    /\ NamesUnchanged
\* extract_father_name, lines 584-630
FatherStrategy1 ==
    /\ pc = "father_s1"
    /\ person_name' = extract_name(text)
    /\ candidates' = FatherStrategy1Candidates(text, extract_name(text))
    /\ pc' = "father_s2"
    /\ UNCHANGED <<name, father_name>>
    /\ NamesUnchanged
\* extract_father_name, lines 632-641
FatherStrategy2 ==
    /\ pc = "father_s2"
    /\ candidates' = FatherAfterStrategy2(candidates, person_name)
    /\ pc' = "father_s3"
    /\ UNCHANGED <<name, person_name, father_name>>
    /\ NamesUnchanged
\* extract_father_name, lines 643-657
FatherStrategy3 ==
    /\ pc = "father_s3"
    /\ candidates' = FatherAfterStrategy3(candidates, text, person_name)
    /\ pc' = "father_ret"
    /\ UNCHANGED <<name, person_name, father_name>>
    /\ NamesUnchanged
\* extract_father_name, lines 659-670
FatherReturn ==
    /\ pc = "father_ret"
    /\ father_name' = BestFather(candidates)
    /\ pc' = "father_done"
    /\ UNCHANGED <<candidates, name, person_name>>
    /\ NamesUnchanged

NextNames ==
    \/ NameStrategy1 \/ NameStrategy2 \/ NameStrategy3 \/ NameReturn
    \/ FatherStrategy1 \/ FatherStrategy2 \/ FatherStrategy3 \/ FatherReturn
SpecNames == InitNames /\ [][NextNames]_vars

NameReturned == pc \in {"father_s1", "father_s2", "father_s3", "father_ret", "father_done"}
\* C9: a name returned by extract_name passes _is_valid_name in two-word mode,
\* and a name returned by extract_father_name passes it with
\* allow_single_word=True, whichever strategy produced it.
C9_NamesValid ==
    /\ (NameReturned /\ name # None) => is_valid_name(name, FALSE)
    /\ (pc = "father_done" /\ father_name # None) => is_valid_name(father_name, TRUE)
\* both extractors returned a name, the father's from the last word of a name
\* that has a shorter last word elsewhere in the model's lines
C9_Witness ==
    /\ pc = "father_done"
    /\ name = <<"A","S","H","W","I","N"," ","B","A","L","A","G","U","R","U">>
    /\ father_name = <<"B","A","L","A","G","U","R","U">>
    /\ candidates[1].strategy = "last_word_extraction"

(***************************************************************************)
(* SpecNameRules: one call of _is_valid_name on a text built from at most  *)
(* MaxNameTokens of NameRuleTokens, which reach each rule of lines 476-500 *)
(* (a keyword, one word, a short word, a 16-letter word, a digit).         *)
(***************************************************************************)
MaxNameTokens == 3
NameRuleTokens ==
    { <<"A","S","H","W","I","N">>, <<"B","A","L","A","G","U","R","U">>, <<" ">>, <<"-">>, <<"A","B">>, <<"R","2">>, <<"i","n","c","o","m","e">>, <<"T","A","X">>,
      <<"A","B","A","B","A","B","A","B","A","B","A","B","A","B","A","B">>, <<"I","N","C","O","M","E"," ","T","A","X"," ","D","E","P","A","R","T","M","E","N","T">>, <<"\t">> }
NameRuleTexts == {Flatten(ts) : ts \in TokenLists(NameRuleTokens, MaxNameTokens)}

InitNameRules ==
    /\ pc = "rules"
    /\ text \in NameRuleTexts
    /\ allow_single_word \in BOOLEAN
    /\ is_valid = FALSE
    /\ IdleFix /\ IdlePan /\ IdleEnsemble /\ IdleNames
    /\ IdleDob /\ IdleSweep /\ IdleData
    /\ IdleConf /\ IdleKyc /\ IdleRedis

NameRules ==
    /\ pc = "rules"
    /\ is_valid' = is_valid_name(text, allow_single_word)
    /\ pc' = "rules_done"
    /\ UNCHANGED <<confVars, kycVars, redisVars, refixed, dobVars, sweepVars, dataVars, pan, corrected, text, valid_pans, pan_number, runs, pil_img,
                   results, thrown, ens_text, allow_single_word, candidates, name,
                   person_name, father_name>>

NextNameRules == NameRules
SpecNameRules == InitNameRules /\ [][NextNameRules]_vars

\* the text holds one of the administrative keywords, in either case
C11_HasKeyword ==
    \E n \in 1..Len(exclude_patterns) : Contains(Upper(text), exclude_patterns[n])
\* a word of the text is shorter than 3, longer than 15, or holds a character
\* other than a letter or a hyphen
C11_BadWord ==
    \E n \in 1..Len(SplitWs(text)) :
        LET word == SplitWs(text)[n]
        IN  \/ Len(word) < 3
            \/ Len(word) > 15
            \/ \E i \in 1..Len(word) : ~IsAlpha(word[i]) /\ word[i] # "-"
\* C11: _is_valid_name rejects a string of fewer than 5 characters, a string
\* holding an administrative keyword, a string of fewer than 2 words outside
\* single-word mode, and a string with a word of fewer than 3 or more than 15
\* characters or with a character that is no letter, space or hyphen; it
\* accepts "ASHWIN BALAGURU".
C11_NameRules ==
    pc = "rules_done" =>
        /\ (\/ Len(text) < 5
            \/ C11_HasKeyword
            \/ Len(SplitWs(text)) < 2 /\ ~allow_single_word
            \/ C11_BadWord) => ~is_valid
        /\ text = <<"A","S","H","W","I","N"," ","B","A","L","A","G","U","R","U">> => is_valid
\* the keyword example is rejected although its words have the shape of a name
C11_Witness ==
    /\ pc = "rules_done"
    /\ text = <<"I","N","C","O","M","E"," ","T","A","X"," ","D","E","P","A","R","T","M","E","N","T">>
    /\ ~allow_single_word
    /\ ~is_valid
    /\ ~C11_BadWord

\* the candidates of strategy (a), else those of (b), else those of (c)
C12_FirstYield ==
    IF NameStrategy1Candidates(text) # <<>> THEN NameStrategy1Candidates(text)
    ELSE IF NameStrategy2Candidates(text) # <<>> THEN NameStrategy2Candidates(text)
    ELSE NameStrategy3Candidates(text)
C13_SameLineFirst ==
    (pc = "father_done" /\ \E i \in 1..Len(candidates) : candidates[i].strategy = "same_line")
        => \E i \in 1..Len(candidates) :
               candidates[i].strategy = "same_line" /\ father_name = candidates[i].value

\* C14: when extract_name and extract_father_name both return a name on a
\* text, the father's name differs from the person's name.
C14_FatherIsNotPerson ==
    (pc = "father_done" /\ name # None /\ father_name # None) => father_name # name
\* the line after the father label repeats the person's name; it is passed
\* over and the father's name comes from the last word
C14_Witness ==
    /\ pc = "father_done"
    /\ text = <<"A","S","H","W","I","N"," ","B","A","L","A","G","U","R","U","\n","F","a","t","h","e","r","'","s"," ","N","a","m","e","\n","A","S","H","W","I","N"," ","B","A","L","A","G","U","R","U">>
    /\ name = <<"A","S","H","W","I","N"," ","B","A","L","A","G","U","R","U">>
    /\ father_name = <<"B","A","L","A","G","U","R","U">>

\* the cleaned text of a line, as lines 609-610 and 617 make it
C24_Cleaned(line) == clean_name(Strip(KeepUpperAndWs(Upper(line))))
\* the lines 1 or 2 lines after a father label, with no other label up to
\* them, whose cleaned text is a valid single-word name other than the
\* person's name
C24_SingleWordLines ==
    LET cl == cleaned_lines(text)
    IN  {C24_Cleaned(cl[ij[1] + ij[2]]) :
            ij \in {p \in (1..Len(cl)) \X (1..(FatherLabelScanLines - 1)) :
                      /\ IsFatherOrFnLine(cl[p[1]])
                      /\ p[1] + p[2] <= Len(cl)
                      /\ \A d \in 1..p[2] : ~IsFatherStopLine(cl[p[1] + d])
                      /\ Len(SplitWs(C24_Cleaned(cl[p[1] + p[2]]))) = 1
                      /\ is_valid_name(C24_Cleaned(cl[p[1] + p[2]]), TRUE)
                      /\ C24_Cleaned(cl[p[1] + p[2]]) # person_name}}
\* C24: in extract_father_name a line 1 or 2 lines after the father label,
\* before any other label, whose cleaned text is a valid single-word name
\* other than the person's name is a candidate whether or not the word is one
\* of the words of the person's name, and with no same-line candidate it is
\* returned in preference to the last word of the person's name.
C24_SingleWordLineWins ==
    (/\ pc = "father_done"
     /\ C24_SingleWordLines # {}
     /\ \A i \in 1..Len(candidates) : candidates[i].strategy # "same_line")
        => father_name \in C24_SingleWordLines

(***************************************************************************)
(* SpecDob: one call of extract_dob, one step per pattern of date_patterns.*)
(* A text is at most MaxDobTokens of DobTokens.                            *)
(***************************************************************************)
MaxDobTokens == 3
DobTokens ==
    { <<"D","O","B",":"," ">>, <<" ">>, <<"2">>, <<"2","7","-","1","0","-","2","0","0","4">>, <<"1","9","9","9","/","1","2","/","3","1">>, <<"3","1","-","0","2","-","2","0","0","4">>, <<"3","2","-","1","0","-","2","0","0","4">>,
      <<"5",".","7",".","1","9","8","5">>, <<"2","7","-","1","0","-","2","0","1","1">>, <<"0","0","-","1","0","-","2","0","0","4">> }
DobTexts == {Flatten(ts) : ts \in TokenLists(DobTokens, MaxDobTokens)}

InitDob ==
    /\ pc = "dob_p1"
    /\ text \in DobTexts
    /\ valid_dates = <<>>
    /\ dob = Idle
    /\ IdleFix
    /\ IdlePan /\ IdleEnsemble /\ IdleValidName /\ IdleNames
    /\ IdleSweep /\ IdleData
    /\ IdleConf /\ IdleKyc /\ IdleRedis

DobUnchanged ==
    UNCHANGED <<confVars, kycVars, redisVars, refixed, sweepVars, dataVars, pan, corrected, text, valid_pans, pan_number, runs,
                pil_img, results, thrown, ens_text, allow_single_word, is_valid,
                candidates, name, person_name, father_name>>

\* lines 683-697, first pattern
DobPattern1 ==
    /\ pc = "dob_p1"
    /\ valid_dates' = DatesOfPattern(valid_dates, 1, text)
    /\ pc' = "dob_p2"
    /\ UNCHANGED dob
    /\ DobUnchanged
\* lines 683-697, second pattern
DobPattern2 ==
    /\ pc = "dob_p2"
    /\ valid_dates' = DatesOfPattern(valid_dates, 2, text)
    /\ pc' = "dob_ret"
    /\ UNCHANGED dob
    /\ DobUnchanged
\* lines 699-703
DobReturn ==
    /\ pc = "dob_ret"
    /\ dob' = IF valid_dates # <<>> THEN valid_dates[1] ELSE None
    /\ pc' = "dob_done"
    /\ UNCHANGED valid_dates
    /\ DobUnchanged

NextDob == DobPattern1 \/ DobPattern2 \/ DobReturn
SpecDob == InitDob /\ [][NextDob]_vars

\* every match of either pattern in the text
C15_Matches == DateFindAll(1, text, 1) \o DateFindAll(2, text, 1)
\* the group of four digits of a match
C15_YearGroup(m) == IF Len(m.g1) = 4 THEN m.g1 ELSE m.g3
C15_DayGroup(m) == IF Len(m.g1) = 4 THEN m.g3 ELSE m.g1
\* the returned string is DD/MM/YYYY
C15_Shape ==
    /\ Len(dob) = 10
    /\ \A i \in {1, 2, 4, 5, 7, 8, 9, 10} : IsDigit(dob[i])
    /\ dob[3] = "/" /\ dob[6] = "/"
\* C15: extract_dob returns None or a string DD/MM/YYYY with day in 1..31,
\* month in 1..12 and year in 1920..2010, which are the numbers of a match in
\* the text as they stand, the year being the 4-digit group of the match;
\* "DOB: 27-10-2004" gives "27/10/2004".
C15_DobContract ==
    pc = "dob_done" =>
        /\ \/ dob = None
           \/ /\ C15_Shape
              /\ ToInt(SubSeq(dob, 1, 2)) \in 1..31
              /\ ToInt(SubSeq(dob, 4, 5)) \in 1..12
              /\ ToInt(SubSeq(dob, 7, 10)) \in 1920..2010
              /\ \E k \in 1..Len(C15_Matches) :
                    /\ ToInt(C15_DayGroup(C15_Matches[k])) = ToInt(SubSeq(dob, 1, 2))
                    /\ ToInt(C15_Matches[k].g2) = ToInt(SubSeq(dob, 4, 5))
                    /\ ToInt(C15_YearGroup(C15_Matches[k])) = ToInt(SubSeq(dob, 7, 10))
        /\ text = <<"D","O","B",":"," ","2","7","-","1","0","-","2","0","0","4">> => dob = <<"2","7","/","1","0","/","2","0","0","4">>
\* an out-of-range match comes before a good one: it is passed over, and the
\* good one is returned with its day and month padded
C15_Witness ==
    /\ pc = "dob_done"
    /\ text = <<"3","2","-","1","0","-","2","0","0","4"," ","5",".","7",".","1","9","8","5">>
    /\ dob = <<"0","5","/","0","7","/","1","9","8","5">>

\* the valid matches of the text, as <<start, date>>
C16_ValidMatches ==
    {<<C15_Matches[k].start,
       FormatDate(DateFields(C15_Matches[k])[1], DateFields(C15_Matches[k])[2],
                  DateFields(C15_Matches[k])[3])>> :
        k \in {l \in 1..Len(C15_Matches) :
                  InDateRange(DateFields(C15_Matches[l])[1], DateFields(C15_Matches[l])[2],
                              DateFields(C15_Matches[l])[3])}}
\* C16: when the text holds several valid date matches, of either pattern,
\* extract_dob returns the one that starts first in the text.
C16_FirstInTextOrder ==
    (pc = "dob_done" /\ C16_ValidMatches # {}) =>
        \E v \in C16_ValidMatches :
            /\ dob = v[2]
            /\ \A w \in C16_ValidMatches : v[1] <= w[1]

\* the most days a month of the calendar can have
C17_DaysIn(month) ==
    IF month = 2 THEN 29 ELSE IF month \in {4, 6, 9, 11} THEN 30 ELSE 31
\* C17: extract_dob rejects a match whose day and month are each in range but
\* form no real date: a returned date has a day its month can have, and
\* "DOB: 31-02-2004" gives None.
C17_RealDayOfMonth ==
    pc = "dob_done" =>
        /\ dob # None => ToInt(SubSeq(dob, 1, 2)) <= C17_DaysIn(ToInt(SubSeq(dob, 4, 5)))
        /\ text = <<"D","O","B",":"," ","3","1","-","0","2","-","2","0","0","4">> => dob = None

(***************************************************************************)
(* SpecSweep: one call of extract_text_with_tesseract.  The engine is an   *)
(* input: a call of pytesseract.image_to_string raises or returns a text;  *)
(* so are Image.open and the value of ensemble_tesseract_bytes.  The list  *)
(* processed_images has at most MaxVariants images, and at most MaxFaults  *)
(* engine calls of a run do anything but return their text.                *)
(* _setup_tesseract and _auto_enhance_brightness catch what they raise and *)
(* change nothing that is read here.                                       *)
(***************************************************************************)
MaxVariants == 2
MaxFaults == 3
\* configs, lines 221-225: '--psm 6', '--psm 3', '--psm 11'
configs == <<6, 3, 11>>
\* the text the engine reads in a pass: one per image, configuration and
\* whitelist setting
PassText(img, cfg, whitelist) ==
    <<DigitChars[img + 1], DigitChars[cfg + 1], IF whitelist THEN "w" ELSE "p">>
\* what the engine returns in a pass when it reads nothing: whitespace alone
\* (the empty text fails the test of lines 238 and 245 in the same way)
BlankTexts == {<<" ">>}
\* the values ensemble_tesseract_bytes returns here: no text, a text, and a
\* text of whitespace alone
EnsembleTexts == {<<>>, <<"E">>, <<" ">>}
Pass(img, cfg, whitelist, raised, t) ==
    [img |-> img, cfg |-> cfg, whitelist |-> whitelist, raised |-> raised, text |-> t]
\* the passes so far in which the engine raised or read nothing
Faults ==
    Cardinality({k \in 1..Len(passes) : passes[k].raised \/ passes[k].text \in BlankTexts})
\* the texts the engine may return in the pass at hand
PassTexts(whitelist) ==
    {PassText(img_idx, cfg_idx, whitelist)} \cup (IF Faults < MaxFaults THEN BlankTexts ELSE {})
\* text and text.strip()
HasText(t) == Strip(t) # <<>>
\* lines 238-239, 245-246
AppendText(texts, t) == IF HasText(t) THEN Append(texts, t) ELSE texts

InitSweep ==
    /\ pc = "sweep_start"
    /\ image_ok \in BOOLEAN
    /\ success = FALSE /\ earlier = Idle
    /\ processed_images = 0 /\ img_idx = 0 /\ cfg_idx = 0
    /\ all_texts = <<>> /\ passes = <<>> /\ combined_text = Idle
    /\ use_ensemble \in BOOLEAN /\ ensemble_calls = <<>>
    /\ text = Idle
    /\ IdleFix /\ IdlePan /\ IdleEnsemble /\ IdleValidName /\ IdleNames /\ IdleDob
    /\ IdleConf /\ IdleKyc /\ IdleRedis

SweepUnchanged ==
    UNCHANGED <<confVars, kycVars, redisVars, refixed, dobVars, dataVars, use_ensemble, pan, corrected, text, valid_pans, pan_number, runs,
                pil_img, results, thrown, ens_text, allow_single_word, is_valid,
                candidates, name, person_name, father_name>>

\* a slip: the text of the vote is kept and the sweep is run all the same
SweepEnsembleReturns_ThenSweep ==
    /\ pc = "sweep_start"
    /\ use_ensemble
    /\ image_ok
    /\ \E ensemble_text \in EnsembleTexts \ {<<>>} :
          /\ ensemble_calls' = <<ensemble_text>>
          /\ all_texts' = <<ensemble_text>>
    /\ pc' = "sweep_pre"
    /\ UNCHANGED <<processed_images, img_idx, cfg_idx, passes, combined_text>>
    /\ SweepUnchanged
\* lines 209-213: use_ensemble is set and the ensemble returns text; on image
\* bytes that do not decode it returns "" (EnsembleOpenFails)
SweepEnsembleReturns ==
    /\ pc = "sweep_start"
    /\ use_ensemble
    /\ image_ok
    /\ \E ensemble_text \in EnsembleTexts \ {<<>>} :
          /\ ensemble_calls' = <<ensemble_text>>
          /\ combined_text' = ensemble_text
    /\ pc' = "sweep_done"
    /\ UNCHANGED <<processed_images, img_idx, cfg_idx, all_texts, passes>>
    /\ SweepUnchanged
\* lines 209-216: use_ensemble is set and the ensemble returns ""
SweepEnsembleEmpty ==
    /\ pc = "sweep_start"
    /\ use_ensemble
    /\ ensemble_calls' = <<<<>>>>
    /\ pc' = "sweep_pre"
    /\ UNCHANGED <<processed_images, img_idx, cfg_idx, all_texts, passes, combined_text>>
    /\ SweepUnchanged
\* lines 209, 215-216: use_ensemble is not set
SweepEnter ==
    /\ pc = "sweep_start"
    /\ ~use_ensemble
    /\ pc' = "sweep_pre"
    /\ UNCHANGED <<processed_images, img_idx, cfg_idx, all_texts, passes, combined_text,
                   ensemble_calls>>
    /\ SweepUnchanged
\* lines 218-225 with preprocess_image_methods, lines 28-74: the original and
\* its variants, or the original alone when a variant cannot be made
SweepPreprocess ==
    /\ pc = "sweep_pre"
    /\ image_ok
    /\ processed_images' \in 1..MaxVariants
    /\ img_idx' = 1
    /\ cfg_idx' = 1
    /\ pc' = "sweep_plain"
    /\ UNCHANGED <<all_texts, passes, combined_text, ensemble_calls>>
    /\ SweepUnchanged
\* lines 32, 72-74, 265-267: Image.open raises, raises again in the handler
\* of preprocess_image_methods, and the outer handler returns ""
SweepPreprocessFails ==
    /\ pc = "sweep_pre"
    /\ ~image_ok
    /\ combined_text' = <<>>
    /\ pc' = "sweep_done"
    /\ UNCHANGED <<processed_images, img_idx, cfg_idx, all_texts, passes, ensemble_calls>>
    /\ SweepUnchanged
\* the loops of lines 227 and 234 move on to the next configuration or image
SweepAdvance ==
    IF cfg_idx < Len(configs)
    THEN /\ cfg_idx' = cfg_idx + 1 /\ img_idx' = img_idx /\ pc' = "sweep_plain"
    ELSE IF img_idx < processed_images
         THEN /\ cfg_idx' = 1 /\ img_idx' = img_idx + 1 /\ pc' = "sweep_plain"
         ELSE /\ cfg_idx' = cfg_idx /\ img_idx' = img_idx /\ pc' = "sweep_end"
\* lines 237-239: the plain pass returns
SweepPlain ==
    /\ pc = "sweep_plain"
    /\ \E t \in PassTexts(FALSE) :
          /\ passes' = Append(passes, Pass(img_idx, cfg_idx, FALSE, FALSE, t))
          /\ all_texts' = AppendText(all_texts, t)
    /\ pc' = "sweep_whitelist"
    /\ UNCHANGED <<processed_images, img_idx, cfg_idx, combined_text, ensemble_calls>>
    /\ SweepUnchanged
\* a slip: an exception of the plain pass ends the sweep
SweepPlainRaises_Abort ==
    /\ pc = "sweep_plain"
    /\ Faults < MaxFaults
    /\ passes' = Append(passes, Pass(img_idx, cfg_idx, FALSE, TRUE, <<>>))
    /\ pc' = "sweep_end"
    /\ UNCHANGED <<processed_images, img_idx, cfg_idx, all_texts, combined_text, ensemble_calls>>
    /\ SweepUnchanged
\* lines 237, 249-250: the plain pass raises; the handler is outside the
\* whitelist pass, which is not made
SweepPlainRaises ==
    /\ pc = "sweep_plain"
    /\ Faults < MaxFaults
    /\ passes' = Append(passes, Pass(img_idx, cfg_idx, FALSE, TRUE, <<>>))
    /\ SweepAdvance
    /\ UNCHANGED <<processed_images, all_texts, combined_text, ensemble_calls>>
    /\ SweepUnchanged
\* lines 243-246: the whitelist pass returns
SweepWhitelist ==
    /\ pc = "sweep_whitelist"
    /\ \E t \in PassTexts(TRUE) :
          /\ passes' = Append(passes, Pass(img_idx, cfg_idx, TRUE, FALSE, t))
          /\ all_texts' = AppendText(all_texts, t)
    /\ SweepAdvance
    /\ UNCHANGED <<processed_images, combined_text, ensemble_calls>>
    /\ SweepUnchanged
\* lines 244, 247-248: the whitelist pass raises
SweepWhitelistRaises ==
    /\ pc = "sweep_whitelist"
    /\ Faults < MaxFaults
    /\ passes' = Append(passes, Pass(img_idx, cfg_idx, TRUE, TRUE, <<>>))
    /\ SweepAdvance
    /\ UNCHANGED <<processed_images, all_texts, combined_text, ensemble_calls>>
    /\ SweepUnchanged
\* lines 253-263 with texts found
SweepReturn ==
    /\ pc = "sweep_end"
    /\ all_texts # <<>>
    /\ combined_text' = JoinLines(all_texts)
    /\ pc' = "sweep_done"
    /\ UNCHANGED <<processed_images, img_idx, cfg_idx, all_texts, passes, ensemble_calls>>
    /\ SweepUnchanged
\* lines 253-263 with no text found: the ensemble as a fallback
SweepFallback ==
    /\ pc = "sweep_end"
    /\ all_texts = <<>>
    /\ \E ensemble_text \in EnsembleTexts :
          /\ ensemble_calls' = Append(ensemble_calls, ensemble_text)
          /\ all_texts' = IF ensemble_text # <<>> THEN <<ensemble_text>> ELSE <<>>
          /\ combined_text' = JoinLines(all_texts')
    /\ pc' = "sweep_done"
    /\ UNCHANGED <<processed_images, img_idx, cfg_idx, passes>>
    /\ SweepUnchanged

NextSweep ==
    \/ SweepEnsembleReturns \/ SweepEnsembleEmpty \/ SweepEnter \/ SweepPreprocess \/ SweepPreprocessFails
    \/ SweepPlain \/ SweepPlainRaises \/ SweepWhitelist \/ SweepWhitelistRaises
    \/ SweepReturn \/ SweepFallback
SpecSweep == InitSweep /\ [][NextSweep]_vars

\* the sweep of the images ran to its end
C20_SweepDone == pc = "sweep_done" /\ processed_images > 0
\* the pass of an image, a configuration and a whitelist setting was made
C20_Attempted(img, cfg, whitelist) ==
    \E k \in 1..Len(passes) :
        passes[k].img = img /\ passes[k].cfg = cfg /\ passes[k].whitelist = whitelist
\* the plain pass of an image and a configuration raised
C20_PlainRaised(img, cfg) ==
    \E k \in 1..Len(passes) :
        /\ passes[k].img = img /\ passes[k].cfg = cfg
        /\ ~passes[k].whitelist /\ passes[k].raised
\* an exception skips the configuration it was thrown in and no other: the
\* plain pass of every image and configuration is made, and so is the
\* whitelist pass wherever the plain pass did not raise
C20_AllAttempted ==
    \A img \in 1..processed_images : \A cfg \in 1..Len(configs) :
        /\ C20_Attempted(img, cfg, FALSE)
        /\ ~C20_PlainRaised(img, cfg) => C20_Attempted(img, cfg, TRUE)
C21_Outputs(whitespace_counts) ==
    LET Kept(p) == /\ ~p.raised
                   /\ IF whitespace_counts THEN p.text # <<>> ELSE HasText(p.text)
        kept == SelectSeq(passes, Kept)
    IN  [k \in 1..Len(kept) |-> kept[k].text]
\* the vote that use_ensemble asks for was made and returned a text
C21_VoteYieldedText == use_ensemble /\ ensemble_calls # <<>> /\ ensemble_calls[1] # <<>>
\* the ensemble was called after the sweep
C21_FallbackAttempted == Len(ensemble_calls) > (IF use_ensemble THEN 1 ELSE 0)
\* the order of the chain, in every state: a pass of the sweep is made only
\* with use_ensemble unset or after a vote that returned no text, and the
\* fallback vote is the last step of the call
C21_Order ==
    /\ (passes # <<>> /\ use_ensemble) => (ensemble_calls # <<>> /\ ensemble_calls[1] = <<>>)
    /\ C21_FallbackAttempted => pc = "sweep_done"
\* the chain with a given reading of "the outputs of the sweep"
C21_Chain(outputs) ==
    /\ C21_Order
    /\ pc = "sweep_done" =>
          /\ use_ensemble => ensemble_calls # <<>>
          /\ C21_VoteYieldedText =>
                /\ combined_text = ensemble_calls[1]
                /\ passes = <<>> /\ processed_images = 0
                /\ ~C21_FallbackAttempted
          /\ ~C21_VoteYieldedText =>
                /\ image_ok => processed_images > 0
                /\ outputs # <<>> =>
                      combined_text = JoinLines(outputs) /\ ~C21_FallbackAttempted
                /\ C21_FallbackAttempted =>
                      /\ outputs = <<>>
                      /\ combined_text = ensemble_calls[Len(ensemble_calls)]
                /\ combined_text = <<>> => (C21_FallbackAttempted \/ ~image_ok)
MaxDataLines == 3
DataLines ==
    { <<"A","S","H","W","I","N"," ","B","A","L","A","G","U","R","U">>, <<"F","a","t","h","e","r","'","s"," ","N","a","m","e",":"," ","R","A","M","E","S","H">>, <<"P","e","r","m","a","n","e","n","t"," ","A","c","c","o","u","n","t"," ","N","u","m","b","e","r"," ","A","B","C","D","E","1","2","3","4","F">>,
      <<"D","O","B",":"," ","2","7","-","1","0","-","2","0","0","4">>, <<"I","N","C","O","M","E"," ","T","A","X"," ","D","E","P","A","R","T","M","E","N","T">> }
DataTexts == {JoinLines(ls) : ls \in TokenLists(DataLines, MaxDataLines)}

InitPanData ==
    /\ pc = "data_text"
    /\ image_ok \in BOOLEAN
    /\ success = FALSE /\ earlier = Idle
    /\ text = Idle
    /\ pan_number = Idle /\ name = Idle /\ father_name = Idle /\ dob = Idle
    /\ valid_pans = <<>> /\ candidates = <<>> /\ person_name = Idle /\ valid_dates = <<>>
    /\ IdleFix /\ IdleEnsemble /\ IdleValidName /\ IdleSweep
    /\ IdleConf /\ IdleKyc /\ IdleRedis

DataUnchanged ==
    UNCHANGED <<confVars, kycVars, redisVars, refixed, sweepVars, image_ok, earlier, pan, corrected, valid_pans, runs, pil_img, results,
                thrown, ens_text, allow_single_word, is_valid, candidates, person_name,
                valid_dates>>

\* line 794 on image bytes that decode
DataRecognize ==
    /\ pc = "data_text"
    /\ image_ok
    /\ text' \in DataTexts
    /\ pc' = "data_fields"
    /\ UNCHANGED <<pan_number, name, father_name, dob, success>>
    /\ DataUnchanged
\* line 794 on image bytes that do not decode: extract_text_with_tesseract
\* returns ""
DataRecognizeUndecodable ==
    /\ pc = "data_text"
    /\ ~image_ok
    /\ text' = <<>>
    /\ pc' = "data_fields"
    /\ UNCHANGED <<pan_number, name, father_name, dob, success>>
    /\ DataUnchanged
\* a slip: success tells whether the PAN number was found
DataFields_NeedsPan ==
    /\ pc = "data_fields"
    /\ pan_number' = extract_pan_number(text)
    /\ name' = extract_name(text)
    /\ father_name' = extract_father_name(text)
    /\ dob' = extract_dob(text)
    /\ success' = (extract_pan_number(text) # None)
    /\ pc' = "data_done"
    /\ UNCHANGED text
    /\ DataUnchanged
\* lines 797-816
DataFields ==
    /\ pc = "data_fields"
    /\ pan_number' = extract_pan_number(text)
    /\ name' = extract_name(text)
    /\ father_name' = extract_father_name(text)
    /\ dob' = extract_dob(text)
    /\ success' = TRUE
    /\ pc' = "data_done"
    /\ UNCHANGED text
    /\ DataUnchanged

NextPanData == DataRecognize \/ DataRecognizeUndecodable \/ DataFields
SpecPanData == InitPanData /\ [][NextPanData]_vars

\* C18: extract_pan_data returns success=True whenever recognition did not
\* raise, whatever fields were found; on the empty text pan_number, name,
\* father_name and dob are all None and success is True.
C18_SuccessMeansCompletion ==
    pc = "data_done" =>
        /\ success
        /\ text = <<>> =>
              pan_number = None /\ name = None /\ father_name = None /\ dob = None
\* a run that found the name and the date but no PAN number
C18_Witness ==
    /\ pc = "data_done"
    /\ success
    /\ pan_number = None
    /\ name # None
    /\ dob # None

\* C19: when the image bytes cannot be opened, extract_pan_data returns
\* success=false and every field None.
C19_DecodeErrorFails ==
    (pc = "data_done" /\ ~image_ok) =>
        /\ ~success
        /\ pan_number = None /\ name = None /\ father_name = None /\ dob = None

(***************************************************************************)
(* SpecReplay: up to MaxCalls calls of the four extractors of              *)
(* extract_pan_data, lines 797-800, on one service object.  The first text *)
(* is at most MaxReplayLines lines of ReplayLines; a later call is made on *)
(* the raw_text of an earlier result, fed back, or on one of               *)
(* ReplayOtherTexts.  valid_dates is the local list of extract_dob as a    *)
(* call leaves it; the lists of the other extractors (lines 272, 394, 587) *)
(* are made anew inside their operators in the same way.  earlier holds    *)
(* the results of the calls made so far.                                   *)
(***************************************************************************)
MaxReplayLines == 2
MaxCalls == 3
ReplayLines ==
    { <<"A","S","H","W","I","N"," ","B","A","L","A","G","U","R","U">>, <<"F","a","t","h","e","r","'","s"," ","N","a","m","e",":"," ","R","A","M","E","S","H">>,
      <<"A","B","C","D","E","1","2","3","4","F">>, <<"D","O","B",":"," ","2","7","-","1","0","-","2","0","0","4">> }
ReplayTexts == {JoinLines(ls) : ls \in TokenLists(ReplayLines, MaxReplayLines)}
\* texts of a call that follows another: no text, and a text with a date
ReplayOtherTexts == {<<>>, <<"D","O","B",":"," ","5",".","7",".","1","9","8","5">>}
\* the fields of a result and the text they were extracted from
FieldsOf(raw_text, p, n, f, d) ==
    [raw_text |-> raw_text, pan_number |-> p, name |-> n, father_name |-> f, dob |-> d]

InitReplay ==
    /\ pc = "replay_call"
    /\ text \in ReplayTexts
    /\ pan_number = Idle /\ name = Idle /\ father_name = Idle /\ dob = Idle
    /\ valid_pans = <<>> /\ candidates = <<>> /\ person_name = Idle /\ valid_dates = <<>>
    /\ image_ok = FALSE /\ success = FALSE /\ earlier = <<>>
    /\ IdleFix /\ IdleEnsemble /\ IdleValidName /\ IdleSweep
    /\ IdleConf /\ IdleKyc /\ IdleRedis

ReplayUnchanged ==
    UNCHANGED <<confVars, kycVars, redisVars, refixed, sweepVars, image_ok, success, pan, corrected, valid_pans, runs, pil_img,
                results, thrown, ens_text, allow_single_word, is_valid, candidates,
                person_name>>

\* a slip: the list of dates is kept on the object from call to call
ReplayFields_KeepsDates ==
    /\ pc = "replay_call"
    /\ pan_number' = extract_pan_number(text)
    /\ name' = extract_name(text)
    /\ father_name' = extract_father_name(text)
    /\ valid_dates' = DatesOfPattern(DatesOfPattern(valid_dates, 1, text), 2, text)
    /\ dob' = IF valid_dates' # <<>> THEN valid_dates'[1] ELSE None
    /\ earlier' = Append(earlier, FieldsOf(text, pan_number', name', father_name', dob'))
    /\ pc' = "replay_next"
    /\ UNCHANGED text
    /\ ReplayUnchanged
\* lines 797-814: the four extractors on the text of the call, and the result
\* with its raw_text; extract_dob starts from an empty list (line 681)
ReplayFields ==
    /\ pc = "replay_call"
    /\ pan_number' = extract_pan_number(text)
    /\ name' = extract_name(text)
    /\ father_name' = extract_father_name(text)
    /\ valid_dates' = DatesOfPattern(DatesOfPattern(<<>>, 1, text), 2, text)
    /\ dob' = IF valid_dates' # <<>> THEN valid_dates'[1] ELSE None
    /\ earlier' = Append(earlier, FieldsOf(text, pan_number', name', father_name', dob'))
    /\ pc' = "replay_next"
    /\ UNCHANGED text
    /\ ReplayUnchanged
\* the raw_text of an earlier result (line 812) is the text of the next call
ReplayFeedBack ==
    /\ pc = "replay_next"
    /\ Len(earlier) < MaxCalls
    /\ \E k \in 1..Len(earlier) : text' = earlier[k].raw_text
    /\ pc' = "replay_call"
    /\ UNCHANGED <<pan_number, name, father_name, dob, valid_dates, earlier>>
    /\ ReplayUnchanged
\* the next call is made on another text
ReplayOtherText ==
    /\ pc = "replay_next"
    /\ Len(earlier) < MaxCalls
    /\ text' \in ReplayOtherTexts
    /\ pc' = "replay_call"
    /\ UNCHANGED <<pan_number, name, father_name, dob, valid_dates, earlier>>
    /\ ReplayUnchanged

NextReplay == ReplayFields \/ ReplayFeedBack \/ ReplayOtherText
SpecReplay == InitReplay /\ [][NextReplay]_vars

MaxLabelGap == 3
PanLabels == {<<"P","A","N">>, <<"P","e","r","m","a","n","e","n","t"," ","A","c","c","o","u","n","t"," ","N","u","m","b","e","r">>}
ZoneChars == {"7", "S", "B", "T", "X"}
LabelGaps == {<<" ">>} \cup {[n \in 1..g |-> "\n"] : g \in 1..MaxLabelGap}
LabelTexts ==
    {label \o gap \o <<"A","B","C","D","E">> \o zone \o <<"F">> :
        label \in PanLabels, gap \in LabelGaps, zone \in [1..4 -> ZoneChars]}

InitPanLabel ==
    /\ pc = "pan_s1"
    /\ text \in LabelTexts
    /\ valid_pans = <<>>
    /\ pan_number = Idle
    /\ IdleFix /\ IdleEnsemble /\ IdleValidName /\ IdleNames
    /\ IdleDob /\ IdleSweep /\ IdleData
    /\ IdleConf /\ IdleKyc /\ IdleRedis

SpecPanLabel == InitPanLabel /\ [][NextPan]_vars

\* a window with letters at positions 0-4 and 9 and, at each of positions
\* 5-8, a digit or a letter that digit_corrections maps to a digit
C23_LooseShape(w) ==
    /\ \A i \in {1, 2, 3, 4, 5, 10} : IsAlpha(w[i])
    /\ \A i \in {6, 7, 8, 9} : IsDigit(w[i]) \/ w[i] \in DOMAIN digit_corrections
\* the corrected windows of that shape that are valid, in one line
C23_OfLine(check_line) ==
    LET ws == Windows(RemoveWhitespace(check_line))
    IN  {fix_pan_ocr_errors(ws[k][2]) :
            k \in {n \in 1..Len(ws) :
                      /\ C23_LooseShape(ws[n][2])
                      /\ is_valid_pan_format(fix_pan_ocr_errors(ws[n][2]))}}
\* those of the label lines of the text and of the two lines after each
C23_Candidates(t) ==
    LET lines == SplitLines(t)
    IN  UNION {C23_OfLine(lines[ij[1] + ij[2]]) :
                  ij \in {p \in (1..Len(lines)) \X (0..(LabelScanLines - 1)) :
                             IsPanLabelLine(lines[p[1]]) /\ p[1] + p[2] <= Len(lines)}}
\* C23: in the label-anchored strategy a 10-character substring of the label
\* line or of the next two lines with letters at positions 0-4 and 9 and, at
\* each of positions 5-8, a digit or one of O, I, L, S, Z, B, G, J, R, T is
\* accepted as a candidate, corrected and returned if valid.
C23_ConfusablesAccepted ==
    (PanReturned /\ C23_Candidates(Upper(text)) # {}) =>
        /\ pc = "pan_ret1"
        /\ pan_number \in C23_Candidates(Upper(text))

(***************************************************************************)
(* SpecNameLabel: extract_name on a text of at most MaxLabelLines lines    *)
(* drawn from LabelLines: the generic name label, two names, a line that   *)
(* is no name, and another label.  No line is a father label, so strategy  *)
(* 1 yields nothing and strategy 2 decides.                                *)
(***************************************************************************)
MaxLabelLines == 5
LabelLines ==
    { <<"N","a","m","e">>, <<"B","A","L","A","G","U","R","U">>, <<"A","S","H","W","I","N"," ","B","A","L","A","G","U","R","U">>, <<"S","U","N","I","L"," ","R","A","O"," ","E","E","E">>, <<"D","a","t","e"," ","o","f"," ","B","i","r","t","h">> }
NameLabelTexts == {JoinLines(ls) : ls \in TokenLists(LabelLines, MaxLabelLines)}

InitNameLabel ==
    /\ pc = "name_s1"
    /\ text \in NameLabelTexts
    /\ candidates = <<>>
    /\ name = Idle
    /\ person_name = Idle
    /\ father_name = Idle
    /\ IdleFix /\ IdlePan /\ IdleEnsemble /\ IdleValidName
    /\ IdleDob /\ IdleSweep /\ IdleData
    /\ IdleConf /\ IdleKyc /\ IdleRedis

NextNameLabel == NameStrategy1 \/ NameStrategy2 \/ NameStrategy3 \/ NameReturn
SpecNameLabel == InitNameLabel /\ [][NextNameLabel]_vars

\* the name a line gives when it passes validation, as lines 434-442 make it
C25_NameOfLine(line) == clean_name(Strip(KeepUpperAndWs(Upper(line))))
C25_Passes(line) ==
    /\ Len(Strip(KeepUpperAndWs(Upper(line)))) >= 5
    /\ is_valid_name(C25_NameOfLine(line), FALSE)
\* the indexes of the lines that follow a generic name label by at most three
\* lines, with no other known label up to them, and pass validation
C25_LabelledLines ==
    LET cl == cleaned_lines(text)
    IN  {ij[1] + ij[2] :
            ij \in {p \in (1..Len(cl)) \X (1..(NameLabelScanLines - 1)) :
                      /\ IsNameLabelLine(cl[p[1]])
                      /\ p[1] + p[2] <= Len(cl)
                      /\ \A d \in 1..p[2] : ~IsOtherLabelLine(cl[p[1] + d])
                      /\ C25_Passes(cl[p[1] + p[2]])}}
\* C25: in strategy (b) of extract_name the value returned is the first line
\* in text order, among the up to three lines that follow a generic name
\* label and come before any other known label, that passes validation, also
\* when the text holds more than one generic name label.
C25_FirstLabelledLine ==
    (/\ pc = "father_s1"
     /\ NameStrategy1Candidates(text) = <<>>
     /\ C25_LabelledLines # {})
        => \E k \in C25_LabelledLines :
               /\ \A m \in C25_LabelledLines : k <= m
               /\ name = C25_NameOfLine(cleaned_lines(text)[k])

(***************************************************************************)
(* SpecConf: the confidence of one call of _pytesseract_text_and_conf,     *)
(* lines 134-160.  data['conf'] is an input: at most MaxConfs entries of   *)
(* ConfValues, each None, a string, an integer or a float (kept in tenths).*)
(* A confidence is a fraction num/den.  The text of the attempt does not   *)
(* enter the confidence; Attempts stands for it in SpecEnsemble.           *)
(***************************************************************************)
MaxConfs == 3
ConfEntry(kind, chars, tenths) == [kind |-> kind, chars |-> chars, tenths |-> tenths]
ConfValues ==
    { ConfEntry("none", <<>>, 0),
      ConfEntry("str", <<>>, 0), ConfEntry("str", <<"-","1">>, 0), ConfEntry("str", <<"9","5">>, 0),
      ConfEntry("str", <<"9","5",".","7">>, 0), ConfEntry("str", <<"x">>, 0),
      ConfEntry("int", <<>>, -10), ConfEntry("int", <<>>, 0), ConfEntry("int", <<>>, 960),
      ConfEntry("float", <<>>, -10), ConfEntry("float", <<>>, 957) }
\* int(x) of a float x, given in tenths: the fraction is cut off towards zero
TruncTenths(t) == IF t >= 0 THEN t \div 10 ELSE -((-t) \div 10)
\* the parts of a decimal numeral: sign, digits before and after the point
NumeralParts(s) ==
    LET signed == s # <<>> /\ s[1] \in {"-", "+"}
        body == IF signed THEN Tail(s) ELSE s
        dots == {i \in 1..Len(body) : body[i] = "."}
        dot == IF dots = {} THEN Len(body) + 1 ELSE CHOOSE i \in dots : TRUE
    IN  [neg |-> signed /\ s[1] = "-",
         whole |-> SubSeq(body, 1, dot - 1),
         frac |-> SubSeq(body, dot + 1, Len(body)),
         ok |-> /\ Cardinality(dots) <= 1
                /\ \A i \in 1..Len(body) : i \in dots \/ IsDigit(body[i])
                /\ Len(body) > Cardinality(dots)]
\* float(s) succeeds on a decimal numeral; anything else raises ValueError
IsNumeral(s) == NumeralParts(s).ok
\* int(float(s)) of a decimal numeral
IntOfNumeral(s) ==
    LET p == NumeralParts(s) IN IF p.neg THEN -ToInt(p.whole) ELSE ToInt(p.whole)
\* lines 143-148: whether the entry reaches valid_confs
ConfKept(c) ==
    CASE c.kind = "none" -> FALSE
      [] c.kind = "str" -> c.chars # <<>> /\ c.chars # <<"-","1">> /\ IsNumeral(c.chars)
      [] OTHER -> TRUE
\* line 146: int(float(c))
ConfInt(c) == IF c.kind = "str" THEN IntOfNumeral(c.chars) ELSE TruncTenths(c.tenths)
\* lines 141-148
valid_confs(cs) ==
    LET kept == SelectSeq(cs, ConfKept) IN [k \in 1..Len(kept) |-> ConfInt(kept[k])]
RECURSIVE Sum(_)
Sum(ns) == IF ns = <<>> THEN 0 ELSE Head(ns) + Sum(Tail(ns))
\* line 149
AvgConf(cs) ==
    IF valid_confs(cs) # <<>>
    THEN [num |-> Sum(valid_confs(cs)), den |-> Len(valid_confs(cs))]
    ELSE [num |-> 0, den |-> 1]

InitConf ==
    /\ pc = "conf"
    /\ confs \in TokenLists(ConfValues, MaxConfs)
    /\ avg_conf = Idle
    /\ text = Idle
    /\ IdleFix /\ IdlePan /\ IdleEnsemble /\ IdleValidName /\ IdleNames
    /\ IdleDob /\ IdleSweep /\ IdleData /\ IdleKyc /\ IdleRedis

ConfUnchanged ==
    UNCHANGED <<kycVars, redisVars, refixed, dobVars, sweepVars, dataVars, confs, pan, corrected,
                text, valid_pans, pan_number, runs, pil_img, results, thrown, ens_text,
                allow_single_word, is_valid, candidates, name, person_name, father_name>>

\* lines 137-153: image_to_data returns
ConfAverage ==
    /\ pc = "conf"
    /\ avg_conf' = AvgConf(confs)
    /\ pc' = "conf_done"
    /\ ConfUnchanged
\* lines 154-160: image_to_data raises
ConfDataRaises ==
    /\ pc = "conf"
    /\ avg_conf' = [num |-> 0, den |-> 1]
    /\ pc' = "conf_raised"
    /\ ConfUnchanged

NextConf == ConfAverage \/ ConfDataRaises
SpecConf == InitConf /\ [][NextConf]_vars

\* a valid per-token confidence: an entry that is present, is a number and is
\* not the sentinel -1, as an integer, a float or a string
C26_Valid(c) ==
    CASE c.kind = "none" -> FALSE
      [] c.kind = "str" -> IsNumeral(c.chars) /\ IntOfNumeral(c.chars) # -1
      [] OTHER -> c.tenths # -10
C26_ValidEntries == SelectSeq(confs, C26_Valid)
\* C26: the confidence of an attempt is the mean of the valid per-token
\* confidences: missing entries and the sentinel -1, as an integer or as a
\* string, do not count; it is 0.0 when there is no valid entry, and it lies
\* in 0..100.  The mean is taken of the entries as line 146 converts them.
C26_MeanOfValid ==
    pc \in {"conf_done", "conf_raised"} =>
        /\ avg_conf.num >= 0 /\ avg_conf.num <= 100 * avg_conf.den
        /\ (pc = "conf_raised" \/ C26_ValidEntries = <<>>) => avg_conf.num = 0
        /\ (pc = "conf_done" /\ C26_ValidEntries # <<>>) =>
              avg_conf.num * Len(C26_ValidEntries)
                  = avg_conf.den * Sum([k \in 1..Len(C26_ValidEntries) |->
                                           ConfInt(C26_ValidEntries[k])])

(***************************************************************************)
(* SpecKyc: the session store of routers/kyc.py under start-verification   *)
(* and complete-verification requests.  A handler runs without             *)
(* interruption up to an await on the database, where other requests run.  *)
(* What the OTP service, the model constructors and the database do is an  *)
(* input.  A user and a request carry, beside what the code keeps, what    *)
(* was the case when the step was taken.                                   *)
(***************************************************************************)
MaxSessions == 1
MaxRequests == 3
\* the key 'did' for the two values of verification_type, lines 129
DidAbove18 == 0
DidCitizenship == 1
VerificationTypes == {"above18", "citizenship"}
\* what otp_service.verify_otp can do: return True, return False, raise
VerifyOutcomes == {"true", "false", "raises"}
\* del temp_verification_data[session_id]
Without(store, session_id) == [k \in (DOMAIN store) \ {session_id} |-> store[k]]
\* a session whose entry a finished request has removed: after success, or
\* after a failure while saving the user
Removed(session_id) ==
    \E q \in 1..Len(requests) :
        /\ requests[q].session_id = session_id
        /\ requests[q].outcome \in {"success", "save_failed"}
\* a request as it stands after the part of the handler before the first await
Request(session_id, found, verify, status, outcome) ==
    [session_id |-> session_id, found |-> found, otp_verified |-> (verify = "true"),
     later |-> Removed(session_id), status |-> status, outcome |-> outcome,
     session_left |-> found]

InitKyc ==
    /\ pc = "kyc"
    /\ temp_verification_data = <<>>
    /\ issued = 0
    /\ users = <<>>
    /\ requests = <<>>
    /\ text = Idle
    /\ IdleFix /\ IdlePan /\ IdleEnsemble /\ IdleValidName /\ IdleNames
    /\ IdleDob /\ IdleSweep /\ IdleData /\ IdleConf /\ IdleRedis

KycUnchanged ==
    UNCHANGED <<confVars, redisVars, refixed, dobVars, sweepVars, dataVars, pc, pan, corrected,
                text, valid_pans, pan_number, runs, pil_img, results, thrown, ens_text,
                allow_single_word, is_valid, candidates, name, person_name, father_name>>

\* lines 39, 121-157: the session is stored under a new id and the OTP is sent
KycStart ==
    /\ issued < MaxSessions
    /\ \E verification_type \in VerificationTypes :
          temp_verification_data' =
              [k \in (DOMAIN temp_verification_data) \cup {issued + 1} |->
                  IF k = issued + 1
                  THEN [verification_type |-> verification_type,
                        did |-> IF verification_type = "above18" THEN DidAbove18
                                ELSE DidCitizenship]
                  ELSE temp_verification_data[k]]
    /\ issued' = issued + 1
    /\ UNCHANGED <<users, requests>>
    /\ KycUnchanged
\* lines 39, 121-135, 159-163: the OTP service raises, the entry is removed again
KycStartOtpFails ==
    /\ issued < MaxSessions
    /\ issued' = issued + 1
    /\ UNCHANGED <<temp_verification_data, users, requests>>
    /\ KycUnchanged

\* lines 180-184: the session id is not in the store
KycCompleteInvalidSession ==
    /\ Len(requests) < MaxRequests
    /\ \E session_id \in 1..MaxSessions :
          /\ session_id \notin DOMAIN temp_verification_data
          /\ requests' = Append(requests, Request(session_id, FALSE, "false", 400, "invalid_session"))
    /\ UNCHANGED <<temp_verification_data, issued, users>>
    /\ KycUnchanged
\* lines 180-196: verify_otp returns False or raises
KycCompleteOtpFails ==
    /\ Len(requests) < MaxRequests
    /\ \E session_id \in DOMAIN temp_verification_data, verify \in VerifyOutcomes \ {"true"} :
          requests' = Append(requests, Request(session_id, TRUE, verify, 400, "otp_failed"))
    /\ UNCHANGED <<temp_verification_data, issued, users>>
    /\ KycUnchanged
\* lines 180-214, 277-279: the OTP verified, UserCreate raises
KycCompleteUserDataRaises ==
    /\ Len(requests) < MaxRequests
    /\ \E session_id \in DOMAIN temp_verification_data :
          requests' = Append(requests, Request(session_id, TRUE, "true", 500, "user_data_failed"))
    /\ UNCHANGED <<temp_verification_data, issued, users>>
    /\ KycUnchanged
\* lines 180-218: the OTP verified, the handler awaits create_user
KycCompleteAwaitCreate ==
    /\ Len(requests) < MaxRequests
    /\ \E session_id \in DOMAIN temp_verification_data :
          requests' = Append(requests, Request(session_id, TRUE, "true", 0, "create_user"))
    /\ UNCHANGED <<temp_verification_data, issued, users>>
    /\ KycUnchanged
\* lines 218-234: create_user returns, the handler awaits log_verification_attempt
KycCreateUserReturns ==
    /\ \E r \in 1..Len(requests) :
          /\ requests[r].outcome = "create_user"
          /\ users' = Append(users, [session_id |-> requests[r].session_id, request |-> r])
          /\ requests' = [requests EXCEPT ![r].outcome = "log"]
    /\ UNCHANGED <<temp_verification_data, issued>>
    /\ KycUnchanged
\* lines 218-226, 271-275: create_user raises, before or after it stored the
\* user, or it returns and VerificationLog raises
KycCreateUserRaises ==
    /\ \E r \in 1..Len(requests), stored \in BOOLEAN :
          /\ requests[r].outcome = "create_user"
          /\ users' = IF stored
                      THEN Append(users, [session_id |-> requests[r].session_id, request |-> r])
                      ELSE users
          /\ temp_verification_data' = Without(temp_verification_data, requests[r].session_id)
          /\ requests' = [requests EXCEPT ![r].outcome = "save_failed", ![r].status = 500,
                                          ![r].session_left = FALSE]
    /\ UNCHANGED issued
    /\ KycUnchanged
\* a slip: the entry stays in the store after success
KycLogReturns_KeepsSession ==
    /\ \E r \in 1..Len(requests) :
          /\ requests[r].outcome = "log"
          /\ requests' = [requests EXCEPT ![r].outcome = "success", ![r].status = 200]
    /\ UNCHANGED <<temp_verification_data, issued, users>>
    /\ KycUnchanged
\* lines 234-269, 271-275: log_verification_attempt returns and the entry is
\* removed; when another request removed it meanwhile, del raises KeyError
KycLogReturns ==
    /\ \E r \in 1..Len(requests) :
          /\ requests[r].outcome = "log"
          /\ temp_verification_data' = Without(temp_verification_data, requests[r].session_id)
          /\ requests' =
                IF requests[r].session_id \in DOMAIN temp_verification_data
                THEN [requests EXCEPT ![r].outcome = "success", ![r].status = 200,
                                      ![r].session_left = FALSE]
                ELSE [requests EXCEPT ![r].outcome = "save_failed", ![r].status = 500,
                                      ![r].session_left = FALSE]
    /\ UNCHANGED <<issued, users>>
    /\ KycUnchanged

NextKyc ==
    \/ KycStart
    \/ KycStartOtpFails
    \/ KycCompleteInvalidSession
    \/ KycCompleteOtpFails
    \/ KycCompleteUserDataRaises
    \/ KycCompleteAwaitCreate
    \/ KycCreateUserReturns
    \/ KycCreateUserRaises
    \/ KycLogReturns
SpecKyc == InitKyc /\ [][NextKyc]_vars

\* the users the request r has created
C29_UsersOf(r) == {u \in 1..Len(users) : users[u].request = r}
\* C29: a session id is single-use.  After a complete-verification succeeded
\* for a session, or failed while saving the user, the entry is not in the
\* store, and every complete-verification that begins later with that id is
\* rejected with 400 and creates no user; one that fails OTP verification is
\* rejected with 400, leaves the entry in place and creates no user; a user is
\* created only by a request that found the session and whose OTP verified.
C29_SingleUse ==
    /\ \A r \in 1..Len(requests) :
          /\ requests[r].outcome \in {"success", "save_failed"} =>
                requests[r].session_id \notin DOMAIN temp_verification_data
          /\ requests[r].later =>
                requests[r].status = 400 /\ C29_UsersOf(r) = {}
          /\ requests[r].outcome = "otp_failed" =>
                /\ requests[r].status = 400
                /\ requests[r].session_left
                /\ C29_UsersOf(r) = {}
    /\ \A u \in 1..Len(users) :
          /\ requests[users[u].request].found
          /\ requests[users[u].request].otp_verified
C29_Witness ==
    /\ Len(requests) = 3
    /\ requests[1].session_id = 1 /\ requests[1].outcome = "otp_failed"
    /\ requests[2].session_id = 1 /\ requests[2].outcome = "success"
    /\ requests[3].session_id = 1 /\ requests[3].later /\ requests[3].status = 400
    /\ Len(users) = 1 /\ users[1].request = 2
    /\ 1 \notin DOMAIN temp_verification_data

(***************************************************************************)
(* SpecRedis: one call of RedisService.send_verification_request,          *)
(* redis_service.py lines 125-187.  A dict is a function on its keys; the  *)
(* optional parameter user_corrections is given or left at None.  Whether  *)
(* the stream takes the message is an input.                               *)
(***************************************************************************)
DocumentTypes == {"pan", "aadhaar"}
PayloadKeys == {"pan", "name", "date_of_birth"}
ExtractedValues ==
    [pan |-> <<"A","B","C","D","E","1","2","3","4","F">>, name |-> <<"T","e","s","t"," ","U","s","e","r">>, date_of_birth |-> <<"0","1","/","0","1","/","1","9","9","0">>]
CorrectedValues ==
    [pan |-> <<"A","B","C","D","E","1","2","3","4","G">>, name |-> <<"C","o","r","r","e","c","t","e","d"," ","T","e","s","t"," ","U","s","e","r">>, date_of_birth |-> <<"0","2","/","0","1","/","1","9","9","0">>]
Dicts(values) == {[k \in keys |-> values[k]] : keys \in SUBSET PayloadKeys}
NoCorrections == [given |-> FALSE, dict |-> <<>>]
Corrections ==
    {NoCorrections} \cup {[given |-> TRUE, dict |-> d] : d \in Dicts(ExtractedValues) \cup Dicts(CorrectedValues)}
\* dict.get(key)
Get(d, key) == IF key \in DOMAIN d THEN d[key] ELSE None
\* lines 129-138, for document type "pan"
create_verification_payload(extracted_data, corrections) ==
    LET final_data == IF corrections.given /\ DOMAIN corrections.dict # {}
                      THEN corrections.dict ELSE extracted_data
    IN  [pan |-> Get(final_data, "pan"),
         name_as_per_pan |-> Get(final_data, "name"),
         date_of_birth |-> Get(final_data, "date_of_birth"),
         consent |-> "Y",
         reason |-> "For onboarding customers"]
\* lines 164-171, without the wallet, the DID and the timestamp
VerificationMessage ==
    [verification_type |-> document_type,
     document_data |-> create_verification_payload(verification_data, user_corrections),
     status |-> "pending_verification"]

InitRedis ==
    /\ pc = "redis"
    /\ document_type \in DocumentTypes
    /\ verification_data \in Dicts(ExtractedValues)
    /\ user_corrections \in Corrections
    /\ verification_message = Idle
    /\ sent = FALSE
    /\ text = Idle
    /\ IdleFix /\ IdlePan /\ IdleEnsemble /\ IdleValidName /\ IdleNames
    /\ IdleDob /\ IdleSweep /\ IdleData /\ IdleConf /\ IdleKyc

RedisUnchanged ==
    UNCHANGED <<confVars, kycVars, refixed, dobVars, sweepVars, dataVars, document_type,
                verification_data, user_corrections, pan, corrected, text, valid_pans,
                pan_number, runs, pil_img, results, thrown, ens_text, allow_single_word,
                is_valid, candidates, name, person_name, father_name>>

\* lines 160-181: the message is built and the stream takes it
RedisSend ==
    /\ pc = "redis"
    /\ document_type = "pan"
    /\ verification_message' = VerificationMessage
    /\ sent' = TRUE
    /\ pc' = "redis_done"
    /\ RedisUnchanged
\* lines 160-187: the message is built and the stream does not take it
RedisSendFails ==
    /\ pc = "redis"
    /\ document_type = "pan"
    /\ verification_message' = VerificationMessage
    /\ sent' = FALSE
    /\ pc' = "redis_done"
    /\ RedisUnchanged
\* lines 139-144, 185-187: another document type raises ValueError, no message
RedisUnsupported ==
    /\ pc = "redis"
    /\ document_type # "pan"
    /\ sent' = FALSE
    /\ pc' = "redis_done"
    /\ UNCHANGED verification_message
    /\ RedisUnchanged

NextRedis == RedisSend \/ RedisSendFails \/ RedisUnsupported
SpecRedis == InitRedis /\ [][NextRedis]_vars

\* C30: for document type "pan" the corrections override only the fields they
\* supply: when verification_data has a pan and the corrections are non-empty
\* and have no pan, the document_data of the message has the pan of
\* verification_data; the status of the message is "pending_verification".
C30_CorrectionsKeepPan ==
    (pc = "redis_done" /\ document_type = "pan") =>
        /\ verification_message.status = "pending_verification"
        /\ ( /\ "pan" \in DOMAIN verification_data
             /\ user_corrections.given
             /\ DOMAIN user_corrections.dict # {}
             /\ "pan" \notin DOMAIN user_corrections.dict )
           => verification_message.document_data.pan = verification_data["pan"]

====
